---- MODULE Spec2Model ----
(***************************************************************************)
(* Model of the Mougli reconciliation engine of sireset-suite              *)
(* (src/core/mougli_core.py).  This part covers the placement (OutView)    *)
(* enrichment, _transform_outview_enriquecido: composite identity keys,    *)
(* grouped counts, first-occurrence allocation, monthly rank, the two      *)
(* secondary aggregation passes, the per-type cap and the final rate.      *)
(*                                                                         *)
(* Numbers.  pandas float columns are modelled as exact rationals <<n,d>>  *)
(* in lowest terms with d > 0; NaN is <<0,0>>.  Integer columns that may   *)
(* be missing use NA (-1).  Dates are integers yyyymmdd, NaT is 0.         *)
(* Text that the code slices (NombreBase) is a sequence of characters.     *)
(***************************************************************************)
EXTENDS Integers, Sequences, FiniteSets, TLC

VARIABLES df, factor_outview, out, tmp, pc,
          monitor_file, out_file, factores, df_m_raw, df_m, mon_u, out_u,
          df_c, sheets, df_result, resumen, raised, tried,
          CONFIG_PATH, cfg, progress_json, worker, ui, call, db

\* df is the parsed placement table (df_o_raw), out the enriched one (df_o);
\* df_m_raw is the parsed broadcast table (df_m at line 550), df_m the one
\* with the channel multipliers applied (df_m at line 551); raised is the
\* exception that left the function, tried the parser strategies that
\* _read_out_robusto has attempted, in order
vars == <<df, factor_outview, out, tmp, pc,
          monitor_file, out_file, factores, df_m_raw, df_m, mon_u, out_u,
          df_c, sheets, df_result, resumen, raised, tried,
          CONFIG_PATH, cfg, progress_json, worker, ui, call, db>>

\* The state around the engine: CONFIG_PATH is the content of
\* factores_config.json, cfg the configuration operations in progress (one
\* per session), progress_json the content of a job's progress.json, worker
\* the background worker process (worker_run), ui the Streamlit process that
\* launched it, call the argument and result of a stand-alone function call,
\* db the users and login_tokens tables of src/auth.py
service_vars == <<CONFIG_PATH, cfg, progress_json, worker, ui, call, db>>

\* A part of the program that takes no step in the specification at hand
Idle == [idle |-> TRUE]

ServicesIdle ==
    /\ CONFIG_PATH = Idle
    /\ cfg = Idle
    /\ progress_json = Idle
    /\ worker = Idle
    /\ ui = Idle
    /\ call = Idle
    /\ db = Idle

\* The variables of procesar_monitor_outview around the placement transform
pipeline_vars == <<monitor_file, out_file, factores, df_m_raw, df_m, mon_u,
                   out_u, df_c, sheets, df_result, resumen, raised, tried>>

\* Largest number of placement rows of an input table.
MaxRows == 3

-----------------------------------------------------------------------------
(* Rational arithmetic standing for float64 *)

RECURSIVE GCD(_, _)
GCD(a, b) == IF b = 0 THEN a ELSE GCD(b, a % b)

Abs(x) == IF x < 0 THEN -x ELSE x

NaN == <<0, 0>>
IsNaN(x) == x[2] = 0

Rat(n, d) ==
    IF d = 0 THEN NaN
    ELSE LET g == GCD(Abs(n), Abs(d))
             s == IF d < 0 THEN -1 ELSE 1
         IN  <<(s * n) \div g, (s * d) \div g>>

RInt(n) == <<n, 1>>
Zero == RInt(0)

RAdd(x, y) == IF IsNaN(x) \/ IsNaN(y) THEN NaN
              ELSE Rat(x[1] * y[2] + y[1] * x[2], x[2] * y[2])
RMul(x, y) == IF IsNaN(x) \/ IsNaN(y) THEN NaN
              ELSE Rat(x[1] * y[1], x[2] * y[2])
\* float division by zero yields inf/NaN in numpy, never an exception
RDiv(x, y) == IF IsNaN(x) \/ IsNaN(y) \/ y[1] = 0 THEN NaN
              ELSE Rat(x[1] * y[2], x[2] * y[1])
RLe(x, y) == x[1] * y[2] <= y[1] * x[2]
\* np.minimum propagates NaN
RMin(x, y) == IF IsNaN(x) \/ IsNaN(y) THEN NaN ELSE IF RLe(x, y) THEN x ELSE y

\* Mutant: the missing value is kept
Mut_FillNa0(x) == x

\* Series.fillna(0.0)
FillNa0(x) == IF IsNaN(x) THEN Zero ELSE x

-----------------------------------------------------------------------------
(* Calendar fields derived from Fecha (lines 262-267) *)

NaT == 0
NA == -1

\* A date is the number yyyymmdd
Date(y, m, d) == y * 10000 + m * 100 + d

YearOf(d) == d \div 10000
MonthOf(d) == (d \div 100) % 100
DayOf(d) == d % 100

IsLeap(y) == (y % 4 = 0 /\ y % 100 # 0) \/ y % 400 = 0

DaysInMonth(y, m) ==
    IF m = 2 THEN (IF IsLeap(y) THEN 29 ELSE 28)
    ELSE IF m \in {4, 6, 9, 11} THEN 30 ELSE 31

RECURSIVE DaysBeforeMonth(_, _)
DaysBeforeMonth(y, m) ==
    IF m = 1 THEN 0 ELSE DaysBeforeMonth(y, m - 1) + DaysInMonth(y, m - 1)

DayOfYear(d) == DaysBeforeMonth(YearOf(d), MonthOf(d)) + DayOf(d)

Ordinal(d) ==
    LET y1 == YearOf(d) - 1
    IN  365 * y1 + (y1 \div 4) - (y1 \div 100) + (y1 \div 400) + DayOfYear(d)

\* Monday = 1 .. Sunday = 7
IsoWeekday(d) == ((Ordinal(d) + 6) % 7) + 1

\* Number of ISO weeks of year y: 53 when 1 January is a Thursday, or a
\* Wednesday of a leap year.
IsoWeeksInYear(y) ==
    LET w1 == IsoWeekday(y * 10000 + 101)
    IN  IF w1 = 4 \/ (w1 = 3 /\ IsLeap(y)) THEN 53 ELSE 52

\* Series.dt.isocalendar().week ; <NA> for NaT
IsoWeek(d) ==
    IF d = NaT THEN NA
    ELSE LET w == (DayOfYear(d) - IsoWeekday(d) + 10) \div 7
         IN  IF w < 1 THEN IsoWeeksInYear(YearOf(d) - 1)
             ELSE IF w > IsoWeeksInYear(YearOf(d)) THEN 1
             ELSE w

MESES_ES == <<"enero", "febrero", "marzo", "abril", "mayo", "junio",
              "julio", "agosto", "septiembre", "octubre", "noviembre",
              "diciembre">>

\* df["AÑO"] = Fecha.dt.year (NaN for NaT)
ANIO(d) == IF d = NaT THEN NA ELSE YearOf(d)
\* df["MES"]: Spanish month name, "" for NaT
MES(d) == IF d = NaT THEN "" ELSE MESES_ES[MonthOf(d)]
\* df["_YM"] = Fecha.dt.to_period("M") (NaT for NaT)
YM(d) == IF d = NaT THEN NaT ELSE d \div 100

-----------------------------------------------------------------------------
(* Text *)

Min(a, b) == IF a < b THEN a ELSE b

\* A function on 1..n as an explicit sequence (evaluated once)
Col(f) == f \o <<>>

\* str.slice(start, stop) with 0-based start and exclusive stop
Slice(s, start, stop) == SubSeq(s, start + 1, Min(stop, Len(s)))

LowerLetters == <<"a","b","c","d","e","f","g","h","i","j","k","l","m",
                  "n","o","p","q","r","s","t","u","v","w","x","y","z">>
UpperLetters == <<"A","B","C","D","E","F","G","H","I","J","K","L","M",
                  "N","O","P","Q","R","S","T","U","V","W","X","Y","Z">>

UpperChar(c) ==
    IF \E k \in DOMAIN LowerLetters : LowerLetters[k] = c
    THEN UpperLetters[CHOOSE k \in DOMAIN LowerLetters : LowerLetters[k] = c]
    ELSE c

\* str.upper()
Upper(s) == Col([k \in DOMAIN s |-> UpperChar(s[k])])

-----------------------------------------------------------------------------
(* Composite keys.  hash_pandas_object is a deterministic 64-bit hash of   *)
(* the row's ordered field tuple; the key is modelled by that tuple, so    *)
(* two rows have equal keys exactly when their tuples are equal.           *)

\* Mutant: the base rate is left out of the placement key
Mut_cu_cols(r) ==
    <<r.MES, r.ANIO, r.Latitud, r.Longitud, r.Avenida, r.NroCalle, r.Marca,
      r.TipoElemento, r.Orientacion, r.Proveedor, r.Distrito, r.CodProveedor>>

cu_cols(r) ==
    <<r.MES, r.ANIO, r.Latitud, r.Longitud, r.Avenida, r.NroCalle, r.Marca,
      r.TipoElemento, r.Orientacion, r.Tarifa, r.Proveedor, r.Distrito,
      r.CodProveedor>>

c1_cols(r) ==
    <<r.NombreBase, r.Proveedor, r.TipoElemento, r.Distrito, r.Orientacion,
      r.NroCalle, r.Item, r.Version, r.Latitud, r.Longitud, r.Categoria,
      r.Tarifa, r.Anunciante, r.MES, r.ANIO, r.SEMANA>>

ab_cols(r) ==
    <<r.Fecha, r.Proveedor, r.TipoElemento, r.Distrito, r.Avenida,
      r.NroCalle, r.Orientacion, r.Marca>>

\* Mutant: a slice of 6 characters, str.slice(5, 11)
Mut_NB_EXTRAE_6_7(nombre) == Slice(nombre, 5, 11)

\* df["NB_EXTRAE_6_7"] = NombreBase.astype(str).str.slice(5, 12)
NB_EXTRAE_6_7(nombre) == Slice(nombre, 5, 12)

z_cols(r) ==
    <<NB_EXTRAE_6_7(r.NombreBase), r.Proveedor, r.TipoElemento, r.Distrito,
      r.Avenida, r.NroCalle, r.Orientacion, r.Marca>>

\* s.map(s.value_counts())[i]
value_counts_map(s, i) == Cardinality({j \in DOMAIN s : s[j] = s[i]})

-----------------------------------------------------------------------------
(* Columns of the enrichment *)

\* Calendar columns added to a raw row (lines 262-267)
WithCalendar(r) ==
    r @@ [ANIO |-> ANIO(r.Fecha), MES |-> MES(r.Fecha),
          SEMANA |-> IsoWeek(r.Fecha)]

\* s_cu.map(df.groupby(s_cu)[ver_col].nunique())[i]: the distinct versions
\* of the row's placement
Q_versiones(s_cu, ver, i) ==
    Cardinality({ver[j] : j \in {x \in DOMAIN s_cu : s_cu[x] = s_cu[i]}})

\* groupby(s_c1).cumcount() == 0 : first row of its piece in table order
first_in_piece(s_c1, i) == ~ \E j \in 1..(i - 1) : s_c1[j] = s_c1[i]

\* Tarifa x Superficie, lines 311-312; 3.8 = 19/5
TarifaSuperficie(first, tarifa_num, mas1, factor) ==
    RDiv(RMul(IF first THEN RMul(tarifa_num, RInt(mas1)) ELSE Zero, factor),
         <<19, 5>>)

\* Rows of the (s_cu, _YM) group of row i; groupby drops rows whose _YM is NaT
MonthGroup(s_cu, ym, i) ==
    {j \in DOMAIN s_cu : ym[j] # NaT /\ s_cu[j] = s_cu[i] /\ ym[j] = ym[i]}

\* Mutant: rank(method="min"), one more than the number of earlier rows
Mut_SemanaEnMes(s_cu, ym, fecha, i) ==
    IF ym[i] = NaT THEN NA
    ELSE 1 + Cardinality({k \in MonthGroup(s_cu, ym, i) : fecha[k] < fecha[i]})

\* s.rank(method="dense") inside the (s_cu, _YM) group
SemanaEnMes(s_cu, ym, fecha, i) ==
    IF ym[i] = NaT THEN NA
    ELSE Cardinality({fecha[j] : j \in {k \in MonthGroup(s_cu, ym, i) :
                                          fecha[k] <= fecha[i]}})

\* Position of row i in the frame sorted by perm
PosIn(perm, i) == CHOOSE p \in DOMAIN perm : perm[p] = i

\* Mutant: cumcount in table order, the sort by date forgotten
Mut_order_in_month(perm, s_cu, ym, i) ==
    IF ym[i] = NaT THEN NA
    ELSE Cardinality({j \in MonthGroup(s_cu, ym, i) : j < i})

\* df.sort_values(["_FechaDT"]).groupby([s_cu, _YM]).cumcount()
order_in_month(perm, s_cu, ym, i) ==
    IF ym[i] = NaT THEN NA
    ELSE Cardinality({j \in MonthGroup(s_cu, ym, i) :
                        PosIn(perm, j) < PosIn(perm, i)})

ConteoMensual(perm, s_cu, ym, i) ==
    IF order_in_month(perm, s_cu, ym, i) = 0 THEN 1 ELSE 0

\* df_pieces = df[df["Tarifa x Superficie"] != 0]; NaN != 0 is True
df_pieces(ts) == {j \in DOMAIN ts : ts[j] # Zero}

\* Mutant: GroupBy.last() in place of first()
Mut_per_first(s_cu, ts, i) ==
    LET g == {j \in df_pieces(ts) : s_cu[j] = s_cu[i] /\ ~IsNaN(ts[j])}
    IN  IF g = {} THEN NaN
        ELSE ts[CHOOSE j \in g : \A k \in g : j >= k]

\* GroupBy.first(): first non-null value of the group in table order
per_first(s_cu, ts, i) ==
    LET g == {j \in df_pieces(ts) : s_cu[j] = s_cu[i] /\ ~IsNaN(ts[j])}
    IN  IF g = {} THEN NaN
        ELSE ts[CHOOSE j \in g : \A k \in g : j <= k]

per_count(s_cu, ts, i) ==
    Cardinality({j \in df_pieces(ts) : s_cu[j] = s_cu[i]})

\* s_cu.map(per_first / per_count): NaN for a key absent from df_pieces
per_value(s_cu, ts, i) ==
    IF per_count(s_cu, ts, i) = 0 THEN NaN
    ELSE RDiv(per_first(s_cu, ts, i), RInt(per_count(s_cu, ts, i)))

TarifaS_div3(tarifa_num) == RDiv(tarifa_num, RInt(3))

\* Mutant: the division by the row's own Conteo_AB_AI is forgotten
Mut_TarifaS_div3_sobre_Conteo(tarifa_num, conteo_ab) ==
    TarifaS_div3(tarifa_num)

TarifaS_div3_sobre_Conteo(tarifa_num, conteo_ab) ==
    RDiv(TarifaS_div3(tarifa_num), RInt(conteo_ab))

RECURSIVE SumOver(_, _)
SumOver(col, S) ==
    IF S = {} THEN Zero
    ELSE LET j == CHOOSE x \in S : TRUE
         IN  RAdd(col[j], SumOver(col, S \ {j}))

\* k_z.map(df.groupby(k_z)["TarifaS_div3_sobre_Conteo"].sum())[i]
Suma_AM_Z_AB_AI(k_z, col, i) ==
    SumOver(col, {j \in DOMAIN k_z : k_z[j] = k_z[i]})

-----------------------------------------------------------------------------
(* Cap per element type and final rate (lines 361-384) *)

\* tipo_to_base: <<element type, base cap>>
tipo_to_base ==
    {
       <<<<"B","A","N","D","E","R","O","L","A">>,
         12000>>,
       <<<<"C","L","I","P">>,
         600>>,
       <<<<"M","I","N","I","P","O","L","A","R">>,
         1000>>,
       <<<<"P","A","L","E","T","A">>,
         600>>,
       <<<<"P","A","N","E","L">>,
         1825>>,
       <<<<"P","A","N","E","L"," ","C","A","R","R","E","T","E","R","O">>,
         5000>>,
       <<<<"P","A","N","T","A","L","L","A"," ","L","E","D">>,
         5400>>,
       <<<<"P","A","R","A","D","E","R","O">>,
         800>>,
       <<<<"P","R","I","S","M","A">>,
         2800>>,
       <<<<"Q","U","I","O","S","C","O">>,
         600>>,
       <<<<"R","E","L","O","J">>,
         840>>,
       <<<<"T","O","R","R","E"," ","U","N","I","P","O","L","A","R">>,
         3000>>,
       <<<<"T","O","T","E","M">>,
         950>>,
       <<<<"V","A","L","L","A">>,
         600>>,
       <<<<"V","A","L","L","A"," ","A","L","T","A">>,
         1300>>
    }

PANTALLA_LED == <<"P","A","N","T","A","L","L","A"," ","L","E","D">>

\* tipo_up.map(tipo_to_base).astype(float) * (4.0/3.0): NaN without an entry
TopeTipo_AQ(tipo_up) ==
    IF \E e \in tipo_to_base : e[1] = tipo_up
    THEN RMul(RInt((CHOOSE e \in tipo_to_base : e[1] = tipo_up)[2]), <<4, 3>>)
    ELSE NaN

\* Mutant: the cap is looked up but never applied
Mut_Suma_AM_Topada_Tipo(an_val, tope) == an_val

\* np.where(np.isnan(tope), an_val, np.minimum(an_val, tope))
Suma_AM_Topada_Tipo(an_val, tope) ==
    IF IsNaN(tope) THEN an_val ELSE RMin(an_val, tope)

\* np.where(denom > 0, topada / denom, 0.0)
SumaTopada_div_ConteoZ(topada, denom) ==
    IF denom > 0 THEN RDiv(topada, RInt(denom)) ELSE Zero

\* Mutant: the digital-screen multiplier is given to every type
Mut_TarifaReal(tipo_up, x) == RMul(x, <<2, 5>>)

\* np.where(tipo_up == "PANTALLA LED", x * 0.4, x * 0.8)
TarifaReal(tipo_up, x) ==
    IF tipo_up = PANTALLA_LED THEN RMul(x, <<2, 5>>) ELSE RMul(x, <<4, 5>>)

-----------------------------------------------------------------------------
(* _transform_outview_enriquecido.  Every column but Conteo Mensual is a  *)
(* function of the table alone.  Conteo Mensual also depends on the row    *)
(* order produced by df.sort_values(["_FechaDT"]): ascending dates, NaT    *)
(* last; the default sort kind is not stable, so rows with equal dates may *)
(* come in any order.                                                      *)

IsSortedByFecha(t, perm) ==
    /\ Len(perm) = Len(t)
    /\ {perm[p] : p \in DOMAIN perm} = DOMAIN t
    /\ \A p, q \in DOMAIN perm :
          p < q =>
            \/ t[perm[q]].Fecha = NaT
            \/ (t[perm[p]].Fecha # NaT /\ t[perm[p]].Fecha <= t[perm[q]].Fecha)

SortOrders(t) ==
    {perm \in [DOMAIN t -> DOMAIN t] : IsSortedByFecha(t, perm)}

\* The frame at line 384, Conteo Mensual left open
Enriched(t, factor) ==
    LET d      == Col([i \in DOMAIN t |-> WithCalendar(t[i])])
        ym     == Col([i \in DOMAIN t |-> YM(t[i].Fecha)])
        fecha  == Col([i \in DOMAIN t |-> t[i].Fecha])
        s_cu   == Col([i \in DOMAIN t |-> cu_cols(d[i])])
        s_c1   == Col([i \in DOMAIN t |-> c1_cols(d[i])])
        k_ab   == Col([i \in DOMAIN t |-> ab_cols(d[i])])
        k_z    == Col([i \in DOMAIN t |-> z_cols(d[i])])
        tnum   == Col([i \in DOMAIN t |-> FillNa0(t[i].Tarifa)])
        ver    == Col([i \in DOMAIN t |-> t[i].Version])
        mas1   == Col([i \in DOMAIN t |-> value_counts_map(s_c1, i)])
        ts     == Col([i \in DOMAIN t |->
                     TarifaSuperficie(first_in_piece(s_c1, i), tnum[i],
                                      mas1[i], factor)])
        cab    == Col([i \in DOMAIN t |-> value_counts_map(k_ab, i)])
        cz     == Col([i \in DOMAIN t |-> value_counts_map(k_z, i)])
        sobre  == Col([i \in DOMAIN t |->
                     TarifaS_div3_sobre_Conteo(tnum[i], cab[i])])
        suma   == Col([i \in DOMAIN t |-> Suma_AM_Z_AB_AI(k_z, sobre, i)])
        tipoup == Col([i \in DOMAIN t |-> Upper(t[i].TipoElemento)])
        tope   == Col([i \in DOMAIN t |-> TopeTipo_AQ(tipoup[i])])
        topada == Col([i \in DOMAIN t |-> Suma_AM_Topada_Tipo(suma[i], tope[i])])
        sdiv   == Col([i \in DOMAIN t |-> SumaTopada_div_ConteoZ(topada[i], cz[i])])
    IN  Col([i \in DOMAIN t |->
           [s_cu |-> s_cu[i],
            \* drop_tmp (lines 387-388): internal columns removed at the end
            int  |-> [TarifaSuperficie |-> ts[i], YM |-> ym[i]],
            \* the columns of the returned table
            pub  |-> d[i] @@
              [Denominador |-> value_counts_map(s_cu, i),
               Q_versiones |-> Q_versiones(s_cu, ver, i),
               Mas1Superficie |-> mas1[i],
               SemanaEnMes |-> SemanaEnMes(s_cu, ym, fecha, i),
               ConteoMensual |-> NA,    \* set by Returned from the sort order
               TarifaSuperficie1ra |-> per_value(s_cu, ts, i),
               Conteo_AB_AI |-> cab[i],
               NB_EXTRAE_6_7 |-> NB_EXTRAE_6_7(t[i].NombreBase),
               Conteo_Z_AB_AI |-> cz[i],
               TarifaS_div3 |-> TarifaS_div3(tnum[i]),
               TarifaS_div3_sobre_Conteo |-> sobre[i],
               Suma_AM_Z_AB_AI |-> suma[i],
               TopeTipo_AQ |-> tope[i],
               Suma_AM_Topada_Tipo |-> topada[i],
               SumaTopada_div_ConteoZ |-> sdiv[i],
               TarifaReal |-> TarifaReal(tipoup[i], sdiv[i])]]])

\* The returned table: the kept columns, Conteo Mensual taken from the order
\* of the sorted frame (lines 319-323)
Returned(e, perm) ==
    LET s_cu == Col([i \in DOMAIN e |-> e[i].s_cu])
        ym   == Col([i \in DOMAIN e |-> e[i].int.YM])
    IN  Col([i \in DOMAIN e |->
           [e[i].pub EXCEPT
              !.ConteoMensual = ConteoMensual(perm, s_cu, ym, i)]])

\* The dropped internal columns, kept aside for the properties about them
InternalColumns(e) == Col([i \in DOMAIN e |-> e[i].int])

-----------------------------------------------------------------------------
(* Input tables.  A row is what _read_out_robusto delivers: the whitelisted*)
(* columns, Fecha already a date or NaT, Tarifa S/. a number or NaN.       *)

CLIP == <<"C","L","I","P">>
clip_lower == <<"c","l","i","p">>
MURAL == <<"M","U","R","A","L">>

pantalla_led_lower == <<"p","a","n","t","a","l","l","a"," ","l","e","d">>

\* Base names.  The slice [5:12] covers characters 6 to 12: NB_B differs
\* from NB_A only in character 12, NB_C only in character 13, NB_D only in
\* character 1; NB_M has 8 characters and NB_S has 4.
NB_A == <<"L","I","M","A","-","2","4","0","1","1","5","A","X">>
NB_B == <<"L","I","M","A","-","2","4","0","1","1","5","B","X">>
NB_C == <<"L","I","M","A","-","2","4","0","1","1","5","A","Y">>
NB_D == <<"X","I","M","A","-","2","4","0","1","1","5","A","X">>
NB_M == <<"L","I","M","A","-","2","4","0">>
NB_S == <<"L","I","M","A">>

\* 29 and 31 January 2024 (same month, same ISO week), 1 February 2024
\* (next month, still the same ISO week)
D_JAN29 == Date(2024, 1, 29)
D_JAN31 == Date(2024, 1, 31)
D_FEB01 == Date(2024, 2, 1)

BaseRow ==
    [Fecha |-> D_JAN29, Latitud |-> "-12.04", Longitud |-> "-77.03",
     Avenida |-> "AV AREQUIPA", NroCalle |-> "12", Marca |-> "ACME",
     TipoElemento |-> CLIP, Orientacion |-> "NS", Tarifa |-> RInt(3000),
     Proveedor |-> "P1", Distrito |-> "LINCE", CodProveedor |-> "C1",
     NombreBase |-> NB_A, Item |-> "I1", Version |-> "V1",
     Categoria |-> "CAT", Anunciante |-> "AN"]

\* Rows for the identity and grouping columns
RowsGrouping ==
    {[BaseRow EXCEPT !.Fecha = f, !.Tarifa = tf, !.NombreBase = nb] :
        f \in {NaT, D_JAN29, D_JAN31, D_FEB01},
        tf \in {NaN, RInt(3000)},
        nb \in {NB_A, NB_D}}

\* Rows for the cap and the final rate: element types with a cap (in
\* either letter case), the digital-screen type, a type without a cap; a
\* missing rate, a rate under every cap, a rate over every cap of these types
RowsCap ==
    {[BaseRow EXCEPT !.TipoElemento = te, !.Tarifa = tf] :
        te \in {CLIP, clip_lower, PANTALLA_LED, pantalla_led_lower, MURAL},
        tf \in {NaN, RInt(1800), RInt(30000)}}

\* Rows for the two secondary aggregation keys
RowsKeys ==
    {[BaseRow EXCEPT !.Fecha = f, !.NombreBase = nb, !.Marca = m,
                     !.Tarifa = tf, !.TipoElemento = MURAL] :
        f \in {D_JAN29, D_JAN31},
        nb \in {NB_A, NB_B},
        m \in {"ACME", "BETA"},
        tf \in {NaN, RInt(3000)}}

\* Rows for the truncated base name
RowsSlice ==
    {[BaseRow EXCEPT !.NombreBase = nb, !.Marca = m, !.TipoElemento = MURAL] :
        nb \in {NB_A, NB_B, NB_C, NB_D, NB_M, NB_S},
        m \in {"ACME", "BETA"}}

Tables(Rows) == UNION {[1..n -> Rows] : n \in 0..MaxRows}

\* _DEFAULT_OUTVIEW["tarifa_superficie_factor"] = 1.25
DefaultFactor == <<5, 4>>

\* None (an absent source), pd.DataFrame() and "no exception"
None == [none |-> TRUE]
EmptyFrame == [cols |-> <<>>, rows |-> <<>>]
NoError == ""

\* The transform on its own: the rest of procesar_monitor_outview at rest
TransformOnly ==
    /\ monitor_file = None
    /\ out_file = None
    /\ factores = <<>>
    /\ df_m_raw = EmptyFrame
    /\ df_m = EmptyFrame
    /\ mon_u = EmptyFrame
    /\ out_u = EmptyFrame
    /\ df_c = EmptyFrame
    /\ sheets = {}
    /\ df_result = EmptyFrame
    /\ resumen = None
    /\ raised = NoError
    /\ tried = <<>>
    /\ ServicesIdle

InitWith(Rows) ==
    /\ df \in Tables(Rows)
    /\ factor_outview = DefaultFactor
    /\ out = <<>>
    /\ tmp = <<>>
    /\ pc = "read"
    /\ TransformOnly

Init == InitWith(RowsGrouping)
InitCap == InitWith(RowsCap)
InitKeys == InitWith(RowsKeys)
InitSlice == InitWith(RowsSlice)

\* _transform_outview_enriquecido applied to the parsed table
\* (procesar_monitor_outview, line 555)
Transform ==
    /\ pc = "read"
    /\ \E e \in {Enriched(df, factor_outview)} :
       \E perm \in SortOrders(df) :
          /\ out' = Returned(e, perm)
          /\ tmp' = InternalColumns(e)
    /\ pc' = "done"
    /\ UNCHANGED service_vars
    /\ UNCHANGED <<df, factor_outview>>
    /\ UNCHANGED pipeline_vars

Next == Transform

\* Identity and grouping inputs
Spec == Init /\ [][Next]_vars
\* Cap and final-rate inputs
SpecCap == InitCap /\ [][Next]_vars
\* Secondary aggregation inputs
SpecKeys == InitKeys /\ [][Next]_vars
\* Truncated base-name inputs
SpecSlice == InitSlice /\ [][Next]_vars

-----------------------------------------------------------------------------
(* Properties of the cap engine *)

Done == pc = "done"

\* The cap table of the rate-cap engine, read as a partial map
HasCap(tipo) == \E e \in tipo_to_base : e[1] = tipo
BaseCap(tipo) == (CHOOSE e \in tipo_to_base : e[1] = tipo)[2]
ScaledCap(tipo) == Rat(4 * BaseCap(tipo), 3)

\* C1: for every row of the result, when the upper-cased element type has a
\* cap entry the capped sum is min(aggregated sum, base cap x 4/3) and so is
\* at most the scaled cap; without an entry the capped sum is the raw
\* aggregated sum.
C1_CapCorrect ==
    Done =>
      \A i \in DOMAIN out :
        LET r  == out[i]
            up == Upper(r.TipoElemento)
        IN  IF HasCap(up)
            THEN /\ r.Suma_AM_Topada_Tipo =
                      (IF RLe(r.Suma_AM_Z_AB_AI, ScaledCap(up))
                       THEN r.Suma_AM_Z_AB_AI ELSE ScaledCap(up))
                 /\ RLe(r.Suma_AM_Topada_Tipo, ScaledCap(up))
            ELSE /\ r.Suma_AM_Topada_Tipo = r.Suma_AM_Z_AB_AI
                 /\ ~IsNaN(r.Suma_AM_Topada_Tipo)

\* C1 witness: one result where a cap cuts a sum (a lower-case type
\* included), a cap leaves a smaller sum alone, and an uncapped type passes
\* a sum larger than every cap.
C1_Witness ==
    /\ Done
    /\ \E i \in DOMAIN out :
          /\ out[i].TipoElemento = clip_lower
          /\ out[i].Suma_AM_Topada_Tipo = RInt(800)
          /\ out[i].Suma_AM_Z_AB_AI = RInt(10000)
    /\ \E i \in DOMAIN out :
          /\ out[i].TipoElemento = PANTALLA_LED
          /\ out[i].Suma_AM_Topada_Tipo = RInt(600)
    /\ \E i \in DOMAIN out :
          /\ out[i].TipoElemento = MURAL
          /\ out[i].Suma_AM_Topada_Tipo = RInt(10000)

\* C2: the final rate of every row is (capped sum / Conteo_Z_AB_AI) x 0.4
\* for the digital-screen type and x 0.8 for any other type, and 0 when the
\* count is 0.
C2_FinalRate ==
    Done =>
      \A i \in DOMAIN out :
        LET r == out[i]
            k == IF Upper(r.TipoElemento) = PANTALLA_LED
                 THEN <<2, 5>> ELSE <<4, 5>>
        IN  r.TarifaReal =
              (IF r.Conteo_Z_AB_AI = 0 THEN Zero
               ELSE RMul(RDiv(r.Suma_AM_Topada_Tipo, RInt(r.Conteo_Z_AB_AI)), k))

\* C2 witness: a digital-screen row and another row, with the rates
\* 0.4 x 7200 / 2 (group of two rows) and 0.8 x 800 / 1.
C2_Witness ==
    /\ Done
    /\ \E i \in DOMAIN out :
          /\ Upper(out[i].TipoElemento) = PANTALLA_LED
          /\ out[i].Conteo_Z_AB_AI = 2
          /\ out[i].TarifaReal = RInt(1440)
    /\ \E i \in DOMAIN out :
          /\ out[i].TipoElemento = CLIP
          /\ out[i].Conteo_Z_AB_AI = 1
          /\ out[i].TarifaReal = RInt(640)

-----------------------------------------------------------------------------
(* Properties of the identity and grouping engine.  The identities are    *)
(* written out field by field from the data model, over the rows of the   *)
(* returned table.                                                        *)

\* PlacementIdentity: month, year, coordinates, avenue, street segment,
\* brand, element type, orientation, base rate, vendor, district, vendor code
SamePlacement(a, b) ==
    /\ a.MES = b.MES /\ a.ANIO = b.ANIO
    /\ a.Latitud = b.Latitud /\ a.Longitud = b.Longitud
    /\ a.Avenida = b.Avenida /\ a.NroCalle = b.NroCalle
    /\ a.Marca = b.Marca /\ a.TipoElemento = b.TipoElemento
    /\ a.Orientacion = b.Orientacion /\ a.Tarifa = b.Tarifa
    /\ a.Proveedor = b.Proveedor /\ a.Distrito = b.Distrito
    /\ a.CodProveedor = b.CodProveedor

\* PieceIdentity: base name, vendor, element type, district, orientation,
\* street segment, item, version, coordinates, category, base rate,
\* advertiser, month, year, week
SamePiece(a, b) ==
    /\ a.NombreBase = b.NombreBase /\ a.Proveedor = b.Proveedor
    /\ a.TipoElemento = b.TipoElemento /\ a.Distrito = b.Distrito
    /\ a.Orientacion = b.Orientacion /\ a.NroCalle = b.NroCalle
    /\ a.Item = b.Item /\ a.Version = b.Version
    /\ a.Latitud = b.Latitud /\ a.Longitud = b.Longitud
    /\ a.Categoria = b.Categoria /\ a.Tarifa = b.Tarifa
    /\ a.Anunciante = b.Anunciante
    /\ a.MES = b.MES /\ a.ANIO = b.ANIO /\ a.SEMANA = b.SEMANA

PlacementGroup(i) == {j \in DOMAIN out : SamePlacement(out[i], out[j])}
PieceGroup(i) == {j \in DOMAIN out : SamePiece(out[i], out[j])}

\* The dated rows of row i's (PlacementIdentity, calendar month) group
PlacementMonthGroup(i) ==
    {j \in PlacementGroup(i) :
        /\ out[j].Fecha # NaT
        /\ YearOf(out[j].Fecha) = YearOf(out[i].Fecha)
        /\ MonthOf(out[j].Fecha) = MonthOf(out[i].Fecha)}

\* Rows of row i's PlacementIdentity group with a non-zero weighted rate
NonZeroRows(i) == {j \in PlacementGroup(i) : tmp[j].TarifaSuperficie # Zero}

MinOf(S) == CHOOSE x \in S : \A y \in S : x <= y

\* C3: every row's Denominador is the number of rows sharing its
\* PlacementIdentity fields and its '+1 superficie' the number of rows
\* sharing its PieceIdentity fields.
C3_GroupSizes ==
    Done =>
      \A i \in DOMAIN out :
        /\ out[i].Denominador = Cardinality(PlacementGroup(i))
        /\ out[i].Mas1Superficie = Cardinality(PieceGroup(i))

\* C3 witness: a placement of two rows that are two different pieces, next
\* to a placement of one row.
C3_Witness ==
    /\ Done
    /\ \E i, j \in DOMAIN out :
          /\ out[i].Denominador = 2 /\ out[i].Mas1Superficie = 1
          /\ out[j].Denominador = 1
          /\ out[i].Tarifa = out[j].Tarifa

\* C4 (as claimed): in every PieceIdentity group one row of earliest date
\* carries rate x surface count x surface factor / 3.8 and every other row
\* of the group carries 0, whatever the order of the input rows.
C4_EarliestRowCarriesRate ==
    Done =>
      \A i \in DOMAIN out :
        \E k \in PieceGroup(i) :
          /\ \A j \in PieceGroup(i) : out[k].Fecha <= out[j].Fecha
          /\ tmp[k].TarifaSuperficie =
               RDiv(RMul(RMul(FillNa0(out[k].Tarifa),
                              RInt(out[k].Mas1Superficie)),
                         factor_outview), <<19, 5>>)
          /\ \A j \in PieceGroup(i) \ {k} : tmp[j].TarifaSuperficie = Zero

\* C5: in a PlacementIdentity group with a non-zero weighted rate, the
\* per-identity allocation of every row is the first non-zero weighted rate
\* of the group (in table order) divided by the number of non-zero rows.
C5_Allocation ==
    Done =>
      \A i \in DOMAIN out :
        NonZeroRows(i) # {} =>
          out[i].TarifaSuperficie1ra =
            RDiv(tmp[MinOf(NonZeroRows(i))].TarifaSuperficie,
                 RInt(Cardinality(NonZeroRows(i))))

\* C5 witness: a group with two non-zero rows of different weighted rates.
C5_Witness ==
    /\ Done
    /\ \E i \in DOMAIN out :
          /\ Cardinality(NonZeroRows(i)) = 2
          /\ \E j \in NonZeroRows(i) :
                tmp[j].TarifaSuperficie #
                  tmp[MinOf(NonZeroRows(i))].TarifaSuperficie
          /\ ~IsNaN(out[i].TarifaSuperficie1ra)

\* C6 (as claimed): no division result stored on a row is missing, and the
\* per-identity allocation of a group without non-zero rows is 0.
C6_DivisionsGuarded ==
    Done =>
      \A i \in DOMAIN out :
        /\ ~IsNaN(out[i].TarifaSuperficie1ra)
        /\ ~IsNaN(out[i].TarifaS_div3_sobre_Conteo)
        /\ ~IsNaN(out[i].SumaTopada_div_ConteoZ)
        /\ NonZeroRows(i) = {} => out[i].TarifaSuperficie1ra = Zero

\* C7: in every (PlacementIdentity, month) group Conteo Mensual is 1 on
\* exactly one row and 0 on the others, and the row with 1 has the earliest
\* date of the group.
C7_MonthlyIndicator ==
    Done =>
      \A i \in DOMAIN out :
        out[i].Fecha # NaT =>
          /\ Cardinality({j \in PlacementMonthGroup(i) :
                            out[j].ConteoMensual = 1}) = 1
          /\ \A j \in PlacementMonthGroup(i) :
                /\ out[j].ConteoMensual \in {0, 1}
                /\ out[j].ConteoMensual = 1 =>
                     \A k \in PlacementMonthGroup(i) :
                        out[j].Fecha <= out[k].Fecha

\* C7 witness: two rows tied on the earliest date of their group, the later
\* one in the table carrying the 1, and a third row of the group with a
\* later date standing first in the table.
C7_Witness ==
    /\ Done
    /\ \E i, j, k \in DOMAIN out :
          /\ k < i /\ i < j
          /\ {j, k} \subseteq PlacementMonthGroup(i)
          /\ out[i].Fecha = out[j].Fecha
          /\ out[i].Fecha < out[k].Fecha
          /\ out[i].ConteoMensual = 0
          /\ out[j].ConteoMensual = 1

\* C8: in every (PlacementIdentity, month) group 'Semana en Mes por Codigo'
\* is the dense rank of the date: equal dates, equal values; a later date, a
\* larger value; the values are exactly 1..k for k distinct dates.
C8_DenseRank ==
    Done =>
      \A i \in DOMAIN out :
        out[i].Fecha # NaT =>
          /\ \A j \in PlacementMonthGroup(i) :
                /\ out[i].Fecha = out[j].Fecha =>
                     out[i].SemanaEnMes = out[j].SemanaEnMes
                /\ out[i].Fecha < out[j].Fecha =>
                     out[i].SemanaEnMes < out[j].SemanaEnMes
          /\ {out[j].SemanaEnMes : j \in PlacementMonthGroup(i)} =
               1..Cardinality({out[j].Fecha : j \in PlacementMonthGroup(i)})

\* C8 witness: a group with two rows on one date and a row on a later date
\* that stands first in the table.
C8_Witness ==
    /\ Done
    /\ \E i, j, k \in DOMAIN out :
          /\ k < i /\ i < j
          /\ {j, k} \subseteq PlacementMonthGroup(i)
          /\ out[i].Fecha = out[j].Fecha
          /\ out[i].Fecha < out[k].Fecha
          /\ out[i].SemanaEnMes = 1 /\ out[j].SemanaEnMes = 1
          /\ out[k].SemanaEnMes = 2

-----------------------------------------------------------------------------
(* Properties of the secondary aggregation passes *)

\* The seven key fields the two secondary keys have in common
SameSeven(a, b) ==
    /\ a.Proveedor = b.Proveedor /\ a.TipoElemento = b.TipoElemento
    /\ a.Distrito = b.Distrito /\ a.Avenida = b.Avenida
    /\ a.NroCalle = b.NroCalle /\ a.Orientacion = b.Orientacion
    /\ a.Marca = b.Marca

\* Exact-date key and truncated-name key
SameAB(a, b) == a.Fecha = b.Fecha /\ SameSeven(a, b)
SameZ(a, b) == a.NB_EXTRAE_6_7 = b.NB_EXTRAE_6_7 /\ SameSeven(a, b)

GroupAB(i) == {j \in DOMAIN out : SameAB(out[i], out[j])}
GroupZ(i) == {j \in DOMAIN out : SameZ(out[i], out[j])}

\* (rate / 3) / size of the row's own exact-date group, missing rate as 0
ShareOfRow(j) ==
    RDiv(RDiv(FillNa0(out[j].Tarifa), RInt(3)), RInt(Cardinality(GroupAB(j))))

\* C9: Conteo_AB_AI counts the rows sharing the exact-date key, Conteo_Z_AB_AI
\* the rows sharing the truncated-name key, and Suma_AM_Z_AB_AI is the sum
\* over the truncated-name group of (rate/3) / the row's own Conteo_AB_AI,
\* a missing rate counting as 0.
C9_SecondaryPasses ==
    Done =>
      \A i \in DOMAIN out :
        /\ out[i].Conteo_AB_AI = Cardinality(GroupAB(i))
        /\ out[i].Conteo_Z_AB_AI = Cardinality(GroupZ(i))
        /\ out[i].Suma_AM_Z_AB_AI =
             SumOver([j \in DOMAIN out |-> ShareOfRow(j)], GroupZ(i))

\* C9 witness: a row whose exact-date group and truncated-name group have
\* two rows each and differ, the other row of the truncated-name group
\* having a missing rate: the sum is (3000/3)/2 + 0.
C9_Witness ==
    /\ Done
    /\ \E i \in DOMAIN out :
          /\ out[i].Conteo_AB_AI = 2
          /\ out[i].Conteo_Z_AB_AI = 2
          /\ GroupAB(i) # GroupZ(i)
          /\ \E j \in GroupZ(i) : IsNaN(out[j].Tarifa)
          /\ out[i].Suma_AM_Z_AB_AI = RInt(500)

\* Characters first..last (1-based, inclusive) of a base name
Chars(nombre, first, last) == SubSeq(nombre, first, Min(last, Len(nombre)))

\* C10 (as claimed): the truncated name has at most 6 characters, and two
\* rows whose base names agree on the 6 characters from position 6 and whose
\* other 7 key fields are equal are in the same truncated-key bucket.
C10_SixCharSlice ==
    Done =>
      /\ \A i \in DOMAIN out : Len(out[i].NB_EXTRAE_6_7) <= 6
      /\ \A i, j \in DOMAIN out :
            (/\ Chars(out[i].NombreBase, 6, 11) = Chars(out[j].NombreBase, 6, 11)
             /\ SameSeven(out[i], out[j]))
            => /\ SameZ(out[i], out[j])
               /\ out[i].Conteo_Z_AB_AI = out[j].Conteo_Z_AB_AI

\* C10 (amended): the truncated name is characters 6 to 12 of the base name,
\* at most 7 characters; rows whose base names agree on these 7 characters
\* and whose other 7 key fields are equal are in the same bucket, and the
\* bucket's count is the number of such rows.
C10_SevenCharSlice ==
    Done =>
      /\ \A i \in DOMAIN out :
            /\ out[i].NB_EXTRAE_6_7 = Chars(out[i].NombreBase, 6, 12)
            /\ Len(out[i].NB_EXTRAE_6_7) <= 7
            /\ out[i].Conteo_Z_AB_AI =
                 Cardinality({j \in DOMAIN out :
                    /\ Chars(out[j].NombreBase, 6, 12) =
                         Chars(out[i].NombreBase, 6, 12)
                    /\ SameSeven(out[i], out[j])})
      /\ \A i, j \in DOMAIN out :
            (/\ Chars(out[i].NombreBase, 6, 12) = Chars(out[j].NombreBase, 6, 12)
             /\ SameSeven(out[i], out[j]))
            => /\ SameZ(out[i], out[j])
               /\ out[i].Conteo_Z_AB_AI = out[j].Conteo_Z_AB_AI
               /\ out[i].Suma_AM_Z_AB_AI = out[j].Suma_AM_Z_AB_AI

\* C10 witness: two different base names with the same 7 characters share a
\* bucket of two rows, while a third name that differs from them only in
\* character 12 is alone in its bucket.
C10_Witness ==
    /\ Done
    /\ \E i, j, k \in DOMAIN out :
          /\ out[i].NombreBase # out[j].NombreBase
          /\ Len(out[i].NB_EXTRAE_6_7) = 7
          /\ out[i].NB_EXTRAE_6_7 = out[j].NB_EXTRAE_6_7
          /\ out[i].Conteo_Z_AB_AI = 2 /\ out[j].Conteo_Z_AB_AI = 2
          /\ SameSeven(out[i], out[k])
          /\ Chars(out[i].NombreBase, 6, 11) = Chars(out[k].NombreBase, 6, 11)
          /\ out[k].Conteo_Z_AB_AI = 1

-----------------------------------------------------------------------------
(* Tables with named columns.  The broadcast table, the unified tables and *)
(* the consolidated table are records [cols, rows]: the column names in    *)
(* order and, per row, a function from column name to cell.                *)

\* DataFrame.empty: no columns or no rows
IsEmpty(f) == Len(f.cols) = 0 \/ Len(f.rows) = 0

\* c in df.columns
HasCol(f, c) == \E k \in DOMAIN f.cols : f.cols[k] = c

Whitespace == {" ", "\t"}

\* str.strip(): leading and trailing whitespace removed
Strip(s) ==
    LET keep == {k \in DOMAIN s : s[k] \notin Whitespace}
    IN  IF keep = {} THEN <<>>
        ELSE LET lo == CHOOSE k \in keep : \A j \in keep : k <= j
                 hi == CHOOSE k \in keep : \A j \in keep : j <= k
             IN  SubSeq(s, lo, hi)

-----------------------------------------------------------------------------
(* Channel multipliers: _aplicar_factores_monitor *)

TV == <<"T","V">>
TELEVISION == <<"T","E","L","E","V","I","S","I","O","N">>
CABLE == <<"C","A","B","L","E">>
RADIO == <<"R","A","D","I","O">>
REVISTA == <<"R","E","V","I","S","T","A">>
REVISTAS == <<"R","E","V","I","S","T","A","S">>
DIARIO == <<"D","I","A","R","I","O">>
DIARIOS == <<"D","I","A","R","I","O","S">>
PRENSA == <<"P","R","E","N","S","A">>
\* a channel outside the synonym table, and str() of a missing channel
INTERNET == <<"I","N","T","E","R","N","E","T">>
NAN_STR == <<"N","A","N">>

\* The synonym table of fx, as pairs <<name, canonical name>>
mapa ==
    { <<TV, TV>>, <<TELEVISION, TV>>,
      <<CABLE, CABLE>>,
      <<RADIO, RADIO>>,
      <<REVISTA, REVISTA>>, <<REVISTAS, REVISTA>>,
      <<DIARIO, DIARIOS>>, <<DIARIOS, DIARIOS>>, <<PRENSA, DIARIOS>> }

\* The value None of clave; like the empty text it fails the test
\* "if clave"
NoKey == <<>>

\* mapa.get(m, None)
mapa_get(m) ==
    IF \E e \in mapa : e[1] = m
    THEN (CHOOSE e \in mapa : e[1] = m)[2]
    ELSE NoKey

Mut_fx(m, fs) == RInt(1)

\* fx: the multiplier of a channel name under the configured multipliers fs
fx(m, fs) ==
    LET clave == mapa_get(Strip(Upper(m)))
    IN  IF clave # NoKey
        THEN IF clave \in DOMAIN fs THEN fs[clave] ELSE RInt(1)
        ELSE RInt(1)

_aplicar_factores_monitor(f, fs) ==
    IF IsEmpty(f) \/ ~HasCol(f, "MEDIO") \/ ~HasCol(f, "INVERSION")
    THEN f
    ELSE [f EXCEPT !.rows =
            Col([i \in DOMAIN f.rows |->
               [f.rows[i] EXCEPT
                  !["INVERSION"] = RMul(@, fx(f.rows[i]["MEDIO"], fs))]])]

\* _DEFAULT_MONITOR
_DEFAULT_MONITOR ==
    (TV :> <<51, 200>>) @@ (CABLE :> <<17, 40>>) @@ (RADIO :> <<17, 40>>) @@
    (REVISTA :> <<119, 800>>) @@ (DIARIOS :> <<119, 800>>)

\* every multiplier 1.0
NeutralFactors == [c \in DOMAIN _DEFAULT_MONITOR |-> RInt(1)]

\* {TV: 0.5, RADIO: 0.25}: the other channels have no configured multiplier
HalfQuarterFactors == (TV :> <<1, 2>>) @@ (RADIO :> <<1, 4>>)

FactorMaps == {_DEFAULT_MONITOR, NeutralFactors, HalfQuarterFactors}

\* Largest number of rows of a broadcast table
MaxMonitorRows == 2

D_JAN15 == Date(2024, 1, 15)
D_JAN16 == Date(2024, 1, 16)

\* Channel names as _read_monitor_txt leaves them (upper case, trimmed)
Channels ==
    {TV, TELEVISION, CABLE, RADIO, REVISTA, REVISTAS, DIARIO, DIARIOS,
     PRENSA, INTERNET, NAN_STR}

MonitorCols == <<"DIA", "MEDIO", "MARCA", "INVERSION">>

MonitorRows ==
    {[DIA |-> D_JAN15, MEDIO |-> m, MARCA |-> "ACME", INVERSION |-> RInt(v)] :
        m \in Channels, v \in {0, 100, 200}}

\* Restriction of a row to the columns cs
Project(r, cs) == [c \in {cs[k] : k \in DOMAIN cs} |-> r[c]]

FramesOf(cs, Rows, n) ==
    {[cols |-> cs, rows |-> Col([i \in DOMAIN t |-> Project(t[i], cs)])] :
        t \in UNION {[1..k -> Rows] : k \in 0..n}}

\* Parsed broadcast tables: the full table, a table without the channel
\* column, one without the investment column
MonitorFrames ==
    FramesOf(MonitorCols, MonitorRows, MaxMonitorRows)
    \cup FramesOf(<<"DIA", "MARCA", "INVERSION">>, MonitorRows, 1)
    \cup FramesOf(<<"DIA", "MEDIO", "MARCA">>, MonitorRows, 1)

\* The placement side of procesar_monitor_outview at rest
PlacementIdle ==
    /\ df = <<>>
    /\ factor_outview = DefaultFactor
    /\ out = <<>>
    /\ tmp = <<>>
    /\ out_file = None

InitFactors ==
    /\ PlacementIdle
    /\ monitor_file = None
    /\ factores \in FactorMaps
    /\ df_m_raw \in MonitorFrames
    /\ df_m = df_m_raw
    /\ mon_u = EmptyFrame
    /\ out_u = EmptyFrame
    /\ df_c = EmptyFrame
    /\ sheets = {}
    /\ df_result = EmptyFrame
    /\ resumen = None
    /\ raised = NoError
    /\ tried = <<>>
    /\ ServicesIdle
    /\ pc = "monitor_read"

\* df_m = _aplicar_factores_monitor(df_m, factores)  (line 551)
AplicarFactores ==
    /\ pc = "monitor_read"
    /\ df_m' = _aplicar_factores_monitor(df_m_raw, factores)
    /\ pc' = "factored"
    /\ UNCHANGED service_vars
    /\ UNCHANGED <<df, factor_outview, out, tmp, monitor_file, out_file,
                   factores, df_m_raw, mon_u, out_u, df_c, sheets, df_result, resumen,
                   raised, tried>>

NextFactors == AplicarFactores

\* Channel-multiplier inputs
SpecFactors == InitFactors /\ [][NextFactors]_vars

-----------------------------------------------------------------------------
(* Properties of the channel multipliers *)

Factored == pc = "factored"

\* The canonical channel of an upper-case, trimmed channel name, as the
\* synonym table is described: NoKey for a name outside it
Canonical(m) ==
    IF m \in {TV, TELEVISION} THEN TV
    ELSE IF m = CABLE THEN CABLE
    ELSE IF m = RADIO THEN RADIO
    ELSE IF m \in {REVISTA, REVISTAS} THEN REVISTA
    ELSE IF m \in {DIARIO, DIARIOS, PRENSA} THEN DIARIOS
    ELSE NoKey

\* multiplier(canonical(channel)), 1.0 without a configured multiplier
Multiplier(m) ==
    IF Canonical(m) # NoKey /\ Canonical(m) \in DOMAIN factores
    THEN factores[Canonical(m)]
    ELSE RInt(1)

\* C11: every investment of the factored broadcast table is the parsed
\* investment times multiplier(canonical(channel)), 1.0 for a channel outside
\* the synonym table or without a configured multiplier; no row is added or
\* lost and no error is raised; with every multiplier 1.0 the table is
\* unchanged; {TV,100},{RADIO,200} under {TV:0.5, RADIO:0.25} give {50, 50}.
C11_ChannelMultipliers ==
    Factored =>
      /\ raised = NoError
      /\ df_m.cols = df_m_raw.cols
      /\ Len(df_m.rows) = Len(df_m_raw.rows)
      /\ (HasCol(df_m_raw, "MEDIO") /\ HasCol(df_m_raw, "INVERSION")) =>
            \A i \in DOMAIN df_m.rows :
               /\ df_m.rows[i]["INVERSION"] =
                     RMul(df_m_raw.rows[i]["INVERSION"],
                          Multiplier(df_m_raw.rows[i]["MEDIO"]))
               /\ \A c \in DOMAIN df_m.rows[i] :
                     c # "INVERSION" => df_m.rows[i][c] = df_m_raw.rows[i][c]
      /\ (\A c \in DOMAIN factores : factores[c] = RInt(1)) => df_m = df_m_raw
      /\ (/\ factores = HalfQuarterFactors
          /\ Len(df_m_raw.rows) = 2
          /\ HasCol(df_m_raw, "MEDIO")
          /\ df_m_raw.rows[1]["MEDIO"] = TV
          /\ df_m_raw.rows[1]["INVERSION"] = RInt(100)
          /\ df_m_raw.rows[2]["MEDIO"] = RADIO
          /\ df_m_raw.rows[2]["INVERSION"] = RInt(200))
         => /\ df_m.rows[1]["INVERSION"] = RInt(50)
            /\ df_m.rows[2]["INVERSION"] = RInt(50)

\* C11 witness: the default multipliers applied to a synonym (PRENSA, 200
\* gives 200 x 0.14875 = 29.75) next to a channel outside the table
\* (INTERNET, 100 stays 100)
C11_Witness ==
    /\ Factored
    /\ factores = _DEFAULT_MONITOR
    /\ Len(df_m.rows) = 2
    /\ HasCol(df_m, "MEDIO")
    /\ df_m.rows[1]["MEDIO"] = PRENSA
    /\ df_m_raw.rows[1]["INVERSION"] = RInt(200)
    /\ df_m.rows[1]["INVERSION"] = <<119, 4>>
    /\ df_m.rows[2]["MEDIO"] = INTERNET
    /\ df_m.rows[2]["INVERSION"] = RInt(100)

-----------------------------------------------------------------------------
(* Rate strings: _read_out_robusto._fix_tarifa *)

Digits == {"0", "1", "2", "3", "4", "5", "6", "7", "8", "9"}

DigitVal(c) ==
    CASE c = "0" -> 0 [] c = "1" -> 1 [] c = "2" -> 2 [] c = "3" -> 3
      [] c = "4" -> 4 [] c = "5" -> 5 [] c = "6" -> 6 [] c = "7" -> 7
      [] c = "8" -> 8 [] c = "9" -> 9

\* \d at position k of s (false outside the string)
IsDigitAt(s, k) == k \in DOMAIN s /\ s[k] \in Digits

\* The pattern (?<=\d)\.(?=\d{3}(\D|$)) matches the character at position k
Mut_MatchesMiles(s, k) ==
    /\ s[k] = "."
    /\ IsDigitAt(s, k - 1)
    /\ IsDigitAt(s, k + 1) /\ IsDigitAt(s, k + 2) /\ IsDigitAt(s, k + 3)

MatchesMiles(s, k) ==
    /\ s[k] = "."
    /\ IsDigitAt(s, k - 1)
    /\ IsDigitAt(s, k + 1) /\ IsDigitAt(s, k + 2) /\ IsDigitAt(s, k + 3)
    /\ ~IsDigitAt(s, k + 4)

\* str.replace(pattern, "", regex=True): a left-to-right scan from position k
RECURSIVE ReplaceMiles(_, _)
ReplaceMiles(s, k) ==
    IF k > Len(s) THEN <<>>
    ELSE (IF MatchesMiles(s, k) THEN <<>> ELSE <<s[k]>>)
         \o ReplaceMiles(s, k + 1)

\* str.replace(",", ".", regex=False)
ReplaceComma(s) == Col([k \in DOMAIN s |-> IF s[k] = "," THEN "." ELSE s[k]])

RECURSIVE Pow10(_)
Pow10(n) == IF n = 0 THEN 1 ELSE 10 * Pow10(n - 1)

\* The number written by a sequence of digits (0 for the empty sequence)
RECURSIVE DigitsToInt(_)
DigitsToInt(ds) ==
    IF ds = <<>> THEN 0
    ELSE 10 * DigitsToInt(SubSeq(ds, 1, Len(ds) - 1)) + DigitVal(ds[Len(ds)])

\* pd.to_numeric(s, errors="coerce") of one text cell: an optional sign, then
\* digits with at most one decimal point and at least one digit; anything
\* else is NaN
to_numeric(s) ==
    LET signed == s # <<>> /\ s[1] \in {"-", "+"}
        body == IF signed THEN Tail(s) ELSE s
        dots == {k \in DOMAIN body : body[k] = "."}
        nums == {k \in DOMAIN body : body[k] \in Digits}
    IN  IF \/ nums = {}
           \/ Cardinality(dots) > 1
           \/ \E k \in DOMAIN body : k \notin dots /\ k \notin nums
        THEN NaN
        ELSE LET p == IF dots = {} THEN Len(body) + 1
                      ELSE CHOOSE k \in dots : TRUE
                 ip == SubSeq(body, 1, p - 1)
                 fp == SubSeq(body, p + 1, Len(body))
                 n == DigitsToInt(ip) * Pow10(Len(fp)) + DigitsToInt(fp)
             IN  Rat(IF s[1] = "-" THEN 0 - n ELSE n, Pow10(Len(fp)))

\* _fix_tarifa applied to one cell of the column "Tarifa S/."
_fix_tarifa(cell) ==
    to_numeric(ReplaceComma(ReplaceMiles(Strip(cell), 1)))

-----------------------------------------------------------------------------
(* The placement reader: _read_out_robusto.  A placement file is a record  *)
(* [csv, parses, rows]: whether its name ends in ".csv", the parser        *)
(* strategies that can read its content, and the data rows they deliver    *)
(* (whitelisted columns, the rate column still as text).                   *)

\* pd.read_csv (fast batch read), openpyxl load_workbook(read_only=True)
\* (row streaming), pd.read_excel (batch spreadsheet read),
\* pd.read_csv(sep=";", encoding="latin-1")
Strategies == {"read_csv", "load_workbook", "read_excel", "read_csv_latin1"}

\* The order in which the nested try blocks reach the strategies
StrategyChain(file) ==
    IF file.csv
    THEN <<"read_csv", "read_csv_latin1", "read_excel">>
    ELSE <<"load_workbook", "read_excel", "read_csv_latin1", "read_excel">>

\* Position in the chain of the first strategy that reads the file, 0 if none.
\* strict: pd.DataFrame(columns=REQUIRED), REQUIRED being a set, raises in
\* the streaming branch when the sheet has no data rows (pandas versions that
\* reject a set of column names), which sends the file to the next strategy.
FirstSuccess(file, strict) ==
    LET chain == StrategyChain(file)
        good == {k \in DOMAIN chain :
                    /\ chain[k] \in file.parses
                    /\ ~(strict /\ chain[k] = "load_workbook"
                                /\ file.rows = <<>>)}
    IN  IF good = {} THEN 0 ELSE CHOOSE k \in good : \A j \in good : k <= j

\* _fix_tarifa on the parsed table
fix_tarifa_rows(rows) ==
    Col([i \in DOMAIN rows |-> [rows[i] EXCEPT !.Tarifa = _fix_tarifa(@)]])

\* The outcomes of _read_out_robusto(file): the strategies attempted, the
\* returned table, the exception that leaves the function
_read_out_robusto(file) ==
    IF file = None
    THEN {[tried |-> <<>>, df |-> <<>>, raised |-> NoError]}
    ELSE {LET k == FirstSuccess(file, strict)
              chain == StrategyChain(file)
          IN  IF k = 0
              THEN [tried |-> chain, df |-> <<>>, raised |-> "Exception"]
              ELSE [tried |-> SubSeq(chain, 1, k),
                    df |-> fix_tarifa_rows(file.rows),
                    raised |-> NoError]
          : strict \in BOOLEAN}

\* Longest rate text enumerated exhaustively
MaxRateLen == 6

RateAlphabet == {"1", ".", ",", " ", "x"}

RateStrings ==
    UNION {[1..n -> RateAlphabet] : n \in 0..MaxRateLen}
    \cup { <<"1", ".", "2", "3", "4", ",", "5", "6">>,
           <<"1", "2", "3", "4", ".", "5", "6">>,
           <<"1", ".", "2", "3", "4", ".", "5", "6", "7">>,
           <<"3", "0", "0", "0">> }

\* A placement row as delivered by a parser strategy, with its rate text
RawRow(t) == [BaseRow EXCEPT !.Tarifa = t, !.TipoElemento = MURAL]

\* Files for the rate text: one data row, read by the first strategy
RateFiles ==
    {[csv |-> TRUE, parses |-> {"read_csv"}, rows |-> <<RawRow(t)>>] :
        t \in RateStrings}

\* Files for the strategy chain: either kind of name, any set of strategies
\* able to read the content, no, one or two data rows
StrategyFiles ==
    {[csv |-> c, parses |-> ps, rows |-> rs] :
        c \in BOOLEAN, ps \in SUBSET Strategies,
        rs \in {<<>>, <<RawRow(<<"3", "0", "0", "0">>)>>,
                <<RawRow(<<"x">>), RawRow(<<"3", "0", "0", "0">>)>>}}

\* The broadcast side of procesar_monitor_outview without a broadcast source
MonitorAbsent ==
    /\ monitor_file = None
    /\ factores = _DEFAULT_MONITOR
    /\ df_m_raw = EmptyFrame
    /\ df_m = EmptyFrame

InitReadOut ==
    /\ MonitorAbsent
    /\ out_file \in {None} \cup RateFiles \cup StrategyFiles
    /\ factor_outview = DefaultFactor
    /\ df = <<>>
    /\ out = <<>>
    /\ tmp = <<>>
    /\ mon_u = EmptyFrame
    /\ out_u = EmptyFrame
    /\ df_c = EmptyFrame
    /\ sheets = {}
    /\ df_result = EmptyFrame
    /\ resumen = None
    /\ raised = NoError
    /\ tried = <<>>
    /\ ServicesIdle
    /\ pc = "factored"

\* df_o_raw = _read_out_robusto(out_file)  (line 554)
ReadOut ==
    /\ pc = "factored"
    /\ \E o \in _read_out_robusto(out_file) :
          /\ tried' = o.tried
          /\ df' = o.df
          /\ raised' = o.raised
          /\ pc' = IF o.raised = NoError THEN "read" ELSE "raised"
    /\ UNCHANGED service_vars
    /\ UNCHANGED <<factor_outview, out, tmp, monitor_file, out_file,
                   factores, df_m_raw, df_m, mon_u, out_u, df_c, sheets,
                   df_result, resumen>>

NextReadOut == ReadOut

\* Placement-reader inputs
SpecReadOut == InitReadOut /\ [][NextReadOut]_vars

-----------------------------------------------------------------------------
(* Properties of the rate text *)

ReadDone == pc = "read"

\* A thousands separator: a dot between a digit and exactly three digits
IsThousandsDot(t, k) ==
    /\ t[k] = "."
    /\ k > 1 /\ t[k - 1] \in Digits
    /\ k + 3 <= Len(t)
    /\ \A j \in (k + 1)..(k + 3) : t[j] \in Digits
    /\ (k + 3 < Len(t) => t[k + 4] \notin Digits)

\* The text with its thousands separators left out and every comma
\* written as a dot
Normalized(t) ==
    LET kept == {k \in DOMAIN t : ~IsThousandsDot(t, k)}
        nth(n) == CHOOSE k \in kept : Cardinality({j \in kept : j <= k}) = n
    IN  [n \in 1..Cardinality(kept) |->
            IF t[nth(n)] = "," THEN "." ELSE t[nth(n)]]

\* An unsigned decimal numeral: digits, at most one point, at least one digit
IsNumeral(u) ==
    /\ \A k \in DOMAIN u : u[k] \in Digits \cup {"."}
    /\ Cardinality({k \in DOMAIN u : u[k] = "."}) <= 1
    /\ \E k \in DOMAIN u : u[k] \in Digits

RECURSIVE IntSum(_, _)
IntSum(w, S) ==
    IF S = {} THEN 0
    ELSE LET j == CHOOSE x \in S : TRUE IN w[j] + IntSum(w, S \ {j})

\* The decimal value of a numeral with f decimals: the sum of its digits,
\* each weighted by its place, over 10^f
NumeralValue(u) ==
    LET point == IF \E k \in DOMAIN u : u[k] = "."
                 THEN CHOOSE k \in DOMAIN u : u[k] = "."
                 ELSE Len(u) + 1
        f == IF point > Len(u) THEN 0 ELSE Len(u) - point
        weight == [k \in DOMAIN u |->
                     IF k < point
                     THEN DigitVal(u[k]) * Pow10(point - 1 - k + f)
                     ELSE IF k = point THEN 0
                     ELSE DigitVal(u[k]) * Pow10(Len(u) - k)]
    IN  Rat(IntSum(weight, DOMAIN u), Pow10(f))

\* C12: the parsed rate of every row is the decimal value of its rate text
\* after leaving out each dot that stands between a digit and exactly three
\* digits and writing each comma as a dot; it is missing (NaN, not 0) when
\* that text is not a number; "1.234,56" and "1234.56" both give 1234.56.
C12_RateNormalized ==
    (ReadDone /\ out_file # None) =>
      /\ Len(df) = Len(out_file.rows)
      /\ \A i \in DOMAIN df :
            LET u == Normalized(Strip(out_file.rows[i].Tarifa))
            IN  /\ IsNumeral(u) => df[i].Tarifa = NumeralValue(u)
                /\ ~IsNumeral(u) => IsNaN(df[i].Tarifa)
                /\ IsNaN(df[i].Tarifa) => df[i].Tarifa # Zero
                /\ out_file.rows[i].Tarifa
                      \in { <<"1", ".", "2", "3", "4", ",", "5", "6">>,
                            <<"1", "2", "3", "4", ".", "5", "6">> }
                   => df[i].Tarifa = <<30864, 25>>

\* C12 witness: the rate text "1.234,56" has been read as 1234.56
C12_Witness ==
    /\ ReadDone
    /\ Len(df) = 1
    /\ out_file.rows[1].Tarifa = <<"1", ".", "2", "3", "4", ",", "5", "6">>
    /\ df[1].Tarifa = <<30864, 25>>

-----------------------------------------------------------------------------
(* The broadcast reader: _read_monitor_txt.  A broadcast file is a record  *)
(* [decodable, text]: the encodings under which its bytes decode, and per  *)
(* such encoding the lines of the decoded text (text.splitlines()), each a *)
(* sequence of characters.                                                 *)

\* sep.join(fields)
RECURSIVE Join(_, _)
Join(fields, sep) ==
    IF fields = <<>> THEN <<>>
    ELSE IF Len(fields) = 1 THEN fields[1]
    ELSE fields[1] \o <<sep>> \o Join(Tail(fields), sep)

\* The fields of a line separated by sep
RECURSIVE Split(_, _)
Split(s, sep) ==
    IF \A k \in DOMAIN s : s[k] # sep THEN <<s>>
    ELSE LET k == CHOOSE x \in DOMAIN s :
                     s[x] = sep /\ \A j \in 1..(x - 1) : s[j] # sep
         IN  <<SubSeq(s, 1, k - 1)>> \o Split(SubSeq(s, k + 1, Len(s)), sep)

\* pat in s
Contains(s, pat) ==
    \E k \in 0..(Len(s) - Len(pat)) : SubSeq(s, k + 1, k + Len(pat)) = pat

\* The encodings of _decode_bytes, in the order tried
Encodings == <<"utf-8-sig", "latin-1", "cp1252">>

\* _decode_bytes: the lines under the first encoding that decodes the bytes,
\* or the ValueError raised when none does
_decode_bytes(file) ==
    LET ok == {k \in DOMAIN Encodings : Encodings[k] \in file.decodable}
    IN  IF ok = {} THEN [raised |-> "ValueError", text |-> <<>>]
        ELSE [raised |-> NoError,
              text |-> file.text[Encodings[CHOOSE k \in ok :
                                              \A j \in ok : k <= j]]]

\* "|MEDIO|"
SENTINEL == <<"|", "M", "E", "D", "I", "O", "|">>

\* lines[:80]
HeaderScan == 80

\* hdr_idx (1-based), 0 for None
hdr_idx(lines) ==
    LET hits == {i \in 1..Min(HeaderScan, Len(lines)) :
                    Contains(Upper(lines[i]), SENTINEL)}
    IN  IF hits = {} THEN 0 ELSE CHOOSE i \in hits : \A j \in hits : i <= j

\* pd.DataFrame({"linea": [l for l in lines if l.strip()]})
Diagnostic(lines) ==
    [cols |-> <<"linea">>,
     rows |-> LET keep == SelectSeq(lines, LAMBDA l : Strip(l) # <<>>)
              IN  Col([i \in DOMAIN keep |-> [linea |-> keep[i]]])]

\* A column name of the parsed table as a string
ColumnName(chars) ==
    CASE chars = <<"#">> -> "#"
      [] chars = <<>> -> ""
      [] chars = <<"M","E","D","I","O">> -> "MEDIO"
      [] chars = <<"D","I","A">> -> "DIA"
      [] chars = <<"M","A","R","C","A">> -> "MARCA"
      [] chars = <<"I","N","V","E","R","S","I","O","N">> -> "INVERSION"
      [] OTHER -> "OTRA"

\* pd.to_datetime(text, format="%d/%m/%Y", errors="coerce")
ParseDMY(text) ==
    LET p == Split(text, "/")
        num(x) == x # <<>> /\ \A k \in DOMAIN x : x[k] \in Digits
    IN  IF /\ Len(p) = 3
           /\ num(p[1]) /\ num(p[2]) /\ num(p[3])
           /\ Len(p[1]) <= 2 /\ Len(p[2]) <= 2 /\ Len(p[3]) = 4
        THEN LET d == DigitsToInt(p[1])
                 m == DigitsToInt(p[2])
                 y == DigitsToInt(p[3])
             IN  IF /\ y >= 1 /\ m \in 1..12
                    /\ d >= 1 /\ d <= DaysInMonth(y, m)
                 THEN y * 10000 + m * 100 + d
                 ELSE NaT
        ELSE NaT

\* The data lines read by pd.read_csv(buf, sep="|", engine="python"): blank
\* lines are skipped, a short line is padded with empty (NaN) cells
DataCells(lines, h, n) ==
    LET body == SubSeq(lines, h + 1, Len(lines))
        keep == SelectSeq(body, LAMBDA l : Strip(l) # <<>>)
    IN  Col([i \in DOMAIN keep |->
           LET c == Split(keep[i], "|")
           IN  Col([k \in 1..n |-> IF k <= Len(c) THEN c[k] ELSE <<>>])])

\* The typed columns of one parsed row (lines 118-128)
MonitorRow(names, cells) ==
    LET has(c) == \E k \in DOMAIN names : names[k] = c
        at(c) == cells[CHOOSE k \in DOMAIN names : names[k] = c]
        dia == ParseDMY(at("DIA"))
        typed == [c \in {names[k] : k \in DOMAIN names} |->
                    IF c = "DIA" THEN dia
                    ELSE IF c = "MEDIO"
                    THEN (IF at(c) = <<>> THEN NAN_STR
                          ELSE Strip(Upper(at(c))))
                    ELSE IF c = "INVERSION" THEN FillNa0(to_numeric(at(c)))
                    ELSE at(c)]
    IN  IF has("DIA")
        THEN typed @@ ("AÑO" :> ANIO(dia)) @@ ("MES" :> MES(dia))
                   @@ ("SEMANA" :> IsoWeek(dia))
        ELSE typed

\* Lines 130-131: the calendar columns first, then the others in file order
MonitorOrder(names) ==
    LET has(c) == \E k \in DOMAIN names : names[k] = c
        cal == IF has("DIA") THEN <<"DIA", "AÑO", "MES", "SEMANA">> ELSE <<>>
    IN  cal \o SelectSeq(names, LAMBDA c : c # "DIA")

\* The outcome of _read_monitor_txt(file): the table returned or the
\* exception raised
_read_monitor_txt(file) ==
    IF file = None THEN [df |-> EmptyFrame, raised |-> NoError]
    ELSE
    LET decoded == _decode_bytes(file)
        lines == decoded.text
    IN  IF decoded.raised # NoError
        THEN [df |-> EmptyFrame, raised |-> decoded.raised]
        ELSE
        LET h == hdr_idx(lines)
        IN  IF h = 0 THEN [df |-> Diagnostic(lines), raised |-> NoError]
            ELSE
            LET header == Split(lines[h], "|")
                cells == DataCells(lines, h, Len(header))
                \* line 109: columns without any value are dropped
                live == {k \in DOMAIN header :
                            \E i \in DOMAIN cells : cells[i][k] # <<>>}
                idx == SelectSeq([k \in DOMAIN header |-> k],
                                 LAMBDA k : k \in live)
            IN  IF idx = <<>>
                THEN [df |-> EmptyFrame, raised |-> "IndexError"]
                ELSE
                LET \* lines 111-113: a leading "#" column is dropped
                    idx2 == IF Strip(header[idx[1]]) \in {<<"#">>, <<>>}
                            THEN Tail(idx) ELSE idx
                    names == Col([k \in DOMAIN idx2 |->
                                ColumnName(Upper(Strip(header[idx2[k]])))])
                    rows == Col([i \in DOMAIN cells |->
                               MonitorRow(names,
                                  Col([k \in DOMAIN idx2 |->
                                         cells[i][idx2[k]]]))])
                IN  [df |-> [cols |-> MonitorOrder(names), rows |-> rows],
                     raised |-> NoError]

\* Broadcast files.  Field texts:
F_HASH == <<"#">>
F_MEDIO == <<"M","E","D","I","O">>
F_DIA == <<"D","I","A">>
F_MARCA == <<"M","A","R","C","A">>
F_INVERSION == <<"I","N","V","E","R","S","I","O","N">>
ACME == <<"A","C","M","E">>
BETA == <<"B","E","T","A">>

\* Header lines: "#|MEDIO|DIA|MARCA|INVERSION", the same in lower case, and
\* "MEDIO|DIA|MARCA|INVERSION" (no "|" before MEDIO, so no sentinel)
HeaderStd == Join(<<F_HASH, F_MEDIO, F_DIA, F_MARCA, F_INVERSION>>, "|")
HeaderLower ==
    Join(<<F_HASH, <<"m","e","d","i","o">>, <<"d","i","a">>,
           <<"m","a","r","c","a">>,
           <<"i","n","v","e","r","s","i","o","n">>>>, "|")
HeaderNoSentinel == Join(<<F_MEDIO, F_DIA, F_MARCA, F_INVERSION>>, "|")

\* A line before the header
TitleLine == <<"R","e","p","o","r","t","e">>

\* The brand of the first data line as each encoding reads its bytes
BrandAs(enc) ==
    IF enc = "utf-8-sig" THEN <<"ñ","A">> ELSE <<"Ã","±","A">>

\* Data lines: "1|TV|15/01/2024|<brand>|100";
\* "2|radio |16/01/2024|BETA|abc" (channel in lower case with a trailing
\* blank, investment not a number); "3|PRENSA|31/02/2024||" (not a date, no
\* brand, no investment); "4|CABLE|15/01/2024||50" (no brand); a blank line
DataLine1(enc) ==
    Join(<<<<"1">>, TV, <<"1","5","/","0","1","/","2","0","2","4">>,
           BrandAs(enc), <<"1","0","0">>>>, "|")
DataLine2 ==
    Join(<<<<"2">>, <<"r","a","d","i","o"," ">>,
           <<"1","6","/","0","1","/","2","0","2","4">>,
           BETA, <<"a","b","c">>>>, "|")
DataLine3 ==
    Join(<<<<"3">>, PRENSA, <<"3","1","/","0","2","/","2","0","2","4">>,
           <<>>, <<>>>>, "|")
DataLine4 ==
    Join(<<<<"4">>, CABLE, <<"1","5","/","0","1","/","2","0","2","4">>,
           <<>>, <<"5","0">>>>, "|")
BlankLine == <<>>

\* Numbers of lines before the header: the header is found within the first
\* 80 lines up to 79 leading lines
Preambles == {0, 1, HeaderScan - 1, HeaderScan}

\* The lines of a file under one encoding: n title lines, the header h (none
\* when h = 0), the data lines chosen by ds
MonitorLines(enc, n, h, ds) ==
    [k \in 1..n |-> TitleLine]
    \o (CASE h = 0 -> <<>>
          [] h = 1 -> <<HeaderStd>>
          [] h = 2 -> <<HeaderLower>>
          [] h = 3 -> <<HeaderNoSentinel>>)
    \o Col([i \in DOMAIN ds |->
              CASE ds[i] = 0 -> BlankLine
                [] ds[i] = 1 -> DataLine1(enc)
                [] ds[i] = 2 -> DataLine2
                [] ds[i] = 3 -> DataLine3
                [] ds[i] = 4 -> DataLine4])

\* latin-1 decodes every byte string
Decodables ==
    {{"utf-8-sig", "latin-1", "cp1252"}, {"utf-8-sig", "latin-1"},
     {"latin-1", "cp1252"}, {"latin-1"}}

MonitorFile(dec, n, h, ds) ==
    [decodable |-> dec,
     text |-> [enc \in {Encodings[k] : k \in DOMAIN Encodings} |->
                 MonitorLines(enc, n, h, ds)]]

MonitorFiles ==
    {MonitorFile(dec, n, h, ds) :
        dec \in Decodables, n \in Preambles, h \in 0..3,
        ds \in UNION {[1..k -> 0..4] : k \in 0..MaxMonitorRows}}

InitMonitor ==
    /\ PlacementIdle
    /\ monitor_file \in {None} \cup MonitorFiles
    /\ factores = HalfQuarterFactors
    /\ df_m_raw = EmptyFrame
    /\ df_m = EmptyFrame
    /\ mon_u = EmptyFrame
    /\ out_u = EmptyFrame
    /\ df_c = EmptyFrame
    /\ sheets = {}
    /\ df_result = EmptyFrame
    /\ resumen = None
    /\ raised = NoError
    /\ tried = <<>>
    /\ ServicesIdle
    /\ pc = "start"

\* df_m = _read_monitor_txt(monitor_file)  (line 550)
ReadMonitor ==
    /\ pc = "start"
    /\ \E o \in {_read_monitor_txt(monitor_file)} :
          /\ df_m_raw' = o.df
          /\ df_m' = o.df
          /\ raised' = o.raised
          /\ pc' = IF o.raised = NoError THEN "monitor_read" ELSE "raised"
    /\ UNCHANGED service_vars
    /\ UNCHANGED <<df, factor_outview, out, tmp, monitor_file, out_file,
                   factores, mon_u, out_u, df_c, sheets, df_result, resumen, tried>>

NextMonitor == ReadMonitor \/ AplicarFactores

\* Broadcast-reader inputs
SpecMonitor == InitMonitor /\ [][NextMonitor]_vars

-----------------------------------------------------------------------------
(* The unified schema: _to_unified.  A cell of a unified table is NULL     *)
(* (NaN, NaT, None) or [v |-> value].                                      *)

_TARGET_ORDER ==
    <<"FECHA", "AÑO", "MES", "SEMANA", "MEDIO", "MARCA", "PRODUCTO", "VERSIÓN",
      "DURACIÓN", "TIPO ELEMENTO", "TIME / Q VERSIONES", "EMISORA / DISTRITO",
      "PROGRAMA / AVENIDA", "BREAK / CALLE", "POS. SPOT / ORIENTACIÓN",
      "INVERSIÓN REAL", "SECTOR", "CATEGORÍA", "ÍTEM", "AGENCIA", "ANUNCIANTE",
      "REGIÓN", "ANCHO / LATITUD", "ALTO / LONGITUD", "GEN / +1 SUPERFICIE",
      "Q ELEMENTOS", "EDITORA / PROVEEDOR">>

_MONITOR_MAP ==
    ("DIA" :> "FECHA") @@ ("AÑO" :> "AÑO") @@ ("MES" :> "MES") @@
    ("SEMANA" :> "SEMANA") @@
    ("MEDIO" :> "MEDIO") @@ ("MARCA" :> "MARCA") @@
    ("PRODUCTO" :> "PRODUCTO") @@ ("VERSION" :> "VERSIÓN") @@
    ("DURACION" :> "DURACIÓN") @@ ("TIPO" :> "TIPO ELEMENTO") @@
    ("HORA" :> "TIME / Q VERSIONES") @@
    ("EMISORA/SITE" :> "EMISORA / DISTRITO") @@
    ("PROGRAMA/TIPO DE SITE" :> "PROGRAMA / AVENIDA") @@
    ("BREAK" :> "BREAK / CALLE") @@
    ("POS. SPOT" :> "POS. SPOT / ORIENTACIÓN") @@
    ("INVERSION" :> "INVERSIÓN REAL") @@ ("SECTOR" :> "SECTOR") @@
    ("CATEGORIA" :> "CATEGORÍA") @@
    ("ITEM" :> "ÍTEM") @@ ("AGENCIA" :> "AGENCIA") @@
    ("ANUNCIANTE" :> "ANUNCIANTE") @@
    ("REGION/ÁMBITO" :> "REGIÓN") @@ ("ANCHO" :> "ANCHO / LATITUD") @@
    ("ALTO" :> "ALTO / LONGITUD") @@
    ("GENERO" :> "GEN / +1 SUPERFICIE") @@ ("SPOTS" :> "Q ELEMENTOS") @@
    ("EDITORA" :> "EDITORA / PROVEEDOR")

_OUT_MAP ==
    ("Fecha" :> "FECHA") @@ ("AÑO" :> "AÑO") @@ ("MES" :> "MES") @@
    ("SEMANA" :> "SEMANA") @@ ("Medio" :> "MEDIO") @@
    ("Marca" :> "MARCA") @@ ("Producto" :> "PRODUCTO") @@
    ("Versión" :> "VERSIÓN") @@ ("Duración (Seg)" :> "DURACIÓN") @@
    ("Tipo Elemento" :> "TIPO ELEMENTO") @@
    ("Q versiones por elemento" :> "TIME / Q VERSIONES") @@
    ("Distrito" :> "EMISORA / DISTRITO") @@
    ("Avenida" :> "PROGRAMA / AVENIDA") @@
    ("Nro Calle/Cuadra" :> "BREAK / CALLE") @@
    ("Orientación de Vía" :> "POS. SPOT / ORIENTACIÓN") @@
    ("Tarifa Real ($)" :> "INVERSIÓN REAL") @@ ("Sector" :> "SECTOR") @@
    ("Categoría" :> "CATEGORÍA") @@ ("Item" :> "ÍTEM") @@
    ("Agencia" :> "AGENCIA") @@ ("Anunciante" :> "ANUNCIANTE") @@
    ("Región" :> "REGIÓN") @@ ("Latitud" :> "ANCHO / LATITUD") @@
    ("Longitud" :> "ALTO / LONGITUD") @@
    ("+1 superficie" :> "GEN / +1 SUPERFICIE") @@
    ("Conteo Mensual" :> "Q ELEMENTOS") @@
    ("Proveedor" :> "EDITORA / PROVEEDOR")

\* np.nan / NaT of a unified table
NULL == [null |-> TRUE]

\* Whether the value x of a native column renamed to the canonical field c
\* is a missing value: NaT, a missing year or week, a missing text, NaN
IsMissing(c, x) ==
    CASE c = "FECHA" -> x = NaT
      [] c \in {"AÑO", "SEMANA"} -> x = NA
      [] c = "MARCA" -> x = <<>>
      [] c = "INVERSIÓN REAL" -> IsNaN(x)
      [] OTHER -> FALSE

\* df.rename(columns={k: v for k, v in mapping.items() if k in df.columns})
Renamed(cols, mapping) ==
    Col([k \in DOMAIN cols |->
           IF cols[k] \in DOMAIN mapping THEN mapping[cols[k]] ELSE cols[k]])

\* Mutant: the absent fields are appended after the renamed native columns
\* and the table is returned without the selection df[_TARGET_ORDER]
Mut_to_unified(f, mapping) ==
    LET names == Renamed(f.cols, mapping)
        src(c) == f.cols[CHOOSE k \in DOMAIN names : names[k] = c]
        has(c) == \E k \in DOMAIN names : names[k] = c
    IN  [cols |-> names \o SelectSeq(_TARGET_ORDER, LAMBDA c : ~ has(c)),
         rows |-> Col([i \in DOMAIN f.rows |->
                    [c \in {_TARGET_ORDER[k] : k \in DOMAIN _TARGET_ORDER} |->
                       IF has(c)
                       THEN (IF IsMissing(c, f.rows[i][src(c)]) THEN NULL
                             ELSE [v |-> f.rows[i][src(c)]])
                       ELSE NULL]])]

\* _to_unified(df, mapping); the tables have no two columns renamed to the
\* same canonical field
_to_unified(f, mapping) ==
    IF IsEmpty(f) THEN [cols |-> _TARGET_ORDER, rows |-> <<>>]
    ELSE
    LET names == Renamed(f.cols, mapping)
        src(c) == f.cols[CHOOSE k \in DOMAIN names : names[k] = c]
    IN  [cols |-> _TARGET_ORDER,
         rows |-> Col([i \in DOMAIN f.rows |->
                    [c \in {_TARGET_ORDER[k] : k \in DOMAIN _TARGET_ORDER} |->
                       IF \E k \in DOMAIN names : names[k] = c
                       THEN (IF IsMissing(c, f.rows[i][src(c)]) THEN NULL
                             ELSE [v |-> f.rows[i][src(c)]])
                       ELSE NULL]])]

-----------------------------------------------------------------------------
(* The enriched placement table as a table with named columns *)

\* Columns of df_o in the order of lines 391-406, with the field of the
\* placement row that holds each
OutColumns ==
    <<"Fecha", "AÑO", "MES", "SEMANA",
      "Latitud", "Longitud", "Avenida", "Nro Calle/Cuadra", "Marca",
      "Tipo Elemento", "Orientación de Vía", "Tarifa S/.", "Proveedor",
      "Distrito", "Cod.Proveedor", "NombreBase", "Item", "Versión",
      "Categoría", "Anunciante",
      "Denominador", "Q versiones por elemento", "+1 superficie",
      "Tarifa × Superficie (1ra por Código único)",
      "Semana en Mes por Código", "Conteo Mensual", "NB_EXTRAE_6_7",
      "Conteo_AB_AI", "Conteo_Z_AB_AI", "TarifaS_div3",
      "TarifaS_div3_sobre_Conteo", "Suma_AM_Z_AB_AI", "TopeTipo_AQ",
      "Suma_AM_Topada_Tipo", "SumaTopada_div_ConteoZ", "Tarifa Real ($)">>

OutFields ==
    <<"Fecha", "ANIO", "MES", "SEMANA",
      "Latitud", "Longitud", "Avenida", "NroCalle", "Marca",
      "TipoElemento", "Orientacion", "Tarifa", "Proveedor",
      "Distrito", "CodProveedor", "NombreBase", "Item", "Version",
      "Categoria", "Anunciante",
      "Denominador", "Q_versiones", "Mas1Superficie",
      "TarifaSuperficie1ra",
      "SemanaEnMes", "ConteoMensual", "NB_EXTRAE_6_7",
      "Conteo_AB_AI", "Conteo_Z_AB_AI", "TarifaS_div3",
      "TarifaS_div3_sobre_Conteo", "Suma_AM_Z_AB_AI", "TopeTipo_AQ",
      "Suma_AM_Topada_Tipo", "SumaTopada_div_ConteoZ", "TarifaReal">>

\* df_o: pd.DataFrame() when the parsed placement table is empty (line 555)
OutFrame(o) ==
    IF o = <<>> THEN EmptyFrame
    ELSE [cols |-> OutColumns,
          rows |-> Col([i \in DOMAIN o |->
                     [c \in {OutColumns[k] : k \in DOMAIN OutColumns} |->
                        o[i][OutFields[CHOOSE k \in DOMAIN OutColumns :
                                          OutColumns[k] = c]]]])]

\* The columns of df_o whose trimmed, case-folded name is in
\* internal_targets (lines 567-577)
drop_cols ==
    {"Denominador", "Tarifa × Superficie (1ra por Código único)",
     "Semana en Mes por Código", "NB_EXTRAE_6_7", "Conteo_AB_AI",
     "Conteo_Z_AB_AI", "TarifaS_div3", "TarifaS_div3_sobre_Conteo",
     "Suma_AM_Z_AB_AI", "TopeTipo_AQ", "Suma_AM_Topada_Tipo",
     "SumaTopada_div_ConteoZ"}

\* df_o_public = df_o.drop(columns=drop_cols)
df_o_public(f) ==
    LET cs == SelectSeq(f.cols, LAMBDA c : c \notin drop_cols)
    IN  [cols |-> cs,
         rows |-> Col([i \in DOMAIN f.rows |-> Project(f.rows[i], cs)])]

-----------------------------------------------------------------------------
(* Consolidation, export and result of procesar_monitor_outview *)

\* The characters of brand names in code-point order, as Python compares str
CodePoints ==
    <<" ", "0", "1", "2", "3", "4", "5", "6", "7", "8", "9",
      "A", "B", "C", "D", "E", "F", "G", "H", "I", "J", "K", "L", "M",
      "N", "O", "P", "Q", "R", "S", "T", "U", "V", "W", "X", "Y", "Z",
      "±", "Ã", "ñ">>

ord(c) == CHOOSE k \in DOMAIN CodePoints : CodePoints[k] = c

\* s < t for str
StrLess(s, t) ==
    \E k \in 1..(Len(s) + 1) :
       /\ k <= Len(t)
       /\ \A j \in 1..(k - 1) : s[j] = t[j]
       /\ (k > Len(s) \/ ord(s[k]) < ord(t[k]))

\* The key FECHA, ascending, na_position="last"
FechaBefore(a, b) == a # NULL /\ (b = NULL \/ a.v < b.v)

\* The key MARCA, ascending, na_position="last"
MarcaBefore(a, b) == a # NULL /\ (b = NULL \/ StrLess(a.v, b.v))

Mut_RowBefore(r, s) ==
    \/ FechaBefore(s["FECHA"], r["FECHA"])
    \/ /\ r["FECHA"] = s["FECHA"]
       /\ MarcaBefore(s["MARCA"], r["MARCA"])

\* Row r sorts strictly before row s by ["FECHA", "MARCA"]
RowBefore(r, s) ==
    \/ FechaBefore(r["FECHA"], s["FECHA"])
    \/ /\ r["FECHA"] = s["FECHA"]
       /\ MarcaBefore(r["MARCA"], s["MARCA"])

\* df.sort_values(["FECHA", "MARCA"], na_position="last"): the sort on
\* several keys is stable, rows with equal keys keep their order
sort_values(rows) ==
    LET pos(i) == 1 + Cardinality({j \in DOMAIN rows :
                         \/ RowBefore(rows[j], rows[i])
                         \/ (~ RowBefore(rows[i], rows[j]) /\ j < i)})
    IN  Col([p \in DOMAIN rows |->
               rows[CHOOSE i \in DOMAIN rows : pos(i) = p]])

\* Lines 558-564
Consolidate ==
    /\ pc = "done"
    /\ IF ~ IsEmpty(df_m) /\ ~ IsEmpty(OutFrame(out))
       THEN /\ mon_u' = _to_unified(df_m, _MONITOR_MAP)
            /\ out_u' = _to_unified(OutFrame(out), _OUT_MAP)
            /\ df_c' = [cols |-> _TARGET_ORDER,
                        rows |-> sort_values(mon_u'.rows \o out_u'.rows)]
       ELSE /\ df_c' = EmptyFrame
            /\ UNCHANGED <<mon_u, out_u>>
    /\ pc' = "consolidated"
    /\ UNCHANGED service_vars
    /\ UNCHANGED <<df, factor_outview, out, tmp, monitor_file, out_file,
                   factores, df_m_raw, df_m, sheets, df_result, resumen, raised, tried>>

Mut_SheetsWritten(m, o, c) ==
    {"Monitor", "OutView", "Consolidado"}

\* The sheets written at lines 589-608 for the three tables
SheetsWritten(m, o, c) ==
    (IF ~ IsEmpty(m) THEN {"Monitor"} ELSE {})
      \cup (IF ~ IsEmpty(o) THEN {"OutView"} ELSE {})
      \cup (IF ~ IsEmpty(c) THEN {"Consolidado"} ELSE {})

\* Lines 580-615: the workbook
WriteExcel ==
    /\ pc = "consolidated"
    /\ sheets' = SheetsWritten(df_m, df_o_public(OutFrame(out)), df_c)
    /\ pc' = "written"
    /\ UNCHANGED service_vars
    /\ UNCHANGED <<df, factor_outview, out, tmp, monitor_file, out_file,
                   factores, df_m_raw, df_m, mon_u, out_u, df_c, df_result, resumen,
                   raised, tried>>

Mut_Result(m, o, c) ==
    IF ~ IsEmpty(c) THEN c
    ELSE IF ~ IsEmpty(m) THEN _to_unified(m, _MONITOR_MAP)
    ELSE IF ~ IsEmpty(o) THEN _to_unified(o, _OUT_MAP)
    ELSE o

\* Lines 619-624
Result(m, o, c) ==
    IF ~ IsEmpty(c) THEN c
    ELSE IF ~ IsEmpty(m) THEN m
    ELSE o

\* Lines 618-625
Return ==
    /\ pc = "written"
    /\ df_result' = Result(df_m, df_o_public(OutFrame(out)), df_c)
    /\ pc' = "returned"
    /\ UNCHANGED service_vars
    /\ UNCHANGED <<df, factor_outview, out, tmp, monitor_file, out_file,
                   factores, df_m_raw, df_m, mon_u, out_u, df_c, sheets,
                   resumen, raised, tried>>

\* Largest number of placement rows of a file given to the whole function
MaxOutRows == 2

\* Data lines of the broadcast files given to the whole function
PipelineDataLines ==
    {<<>>, <<0>>, <<1>>, <<3>>, <<4, 2>>, <<2, 4>>, <<2, 1>>, <<3, 2, 1>>}

\* Broadcast files for the whole function: header at the first line or no
\* header at all, every encoding able to decode the bytes
PipelineMonitorFiles ==
    {MonitorFile({"utf-8-sig", "latin-1", "cp1252"}, 0, h, ds) :
        h \in {0, 1}, ds \in PipelineDataLines}

\* Placement rows of these files: with or without a date, two brands, a rate
\* that is or is not a number
PipelineRows ==
    {[RawRow(t) EXCEPT !.Fecha = f, !.Marca = m] :
        f \in {NaT, D_JAN16}, m \in {ACME, BETA},
        t \in {<<"x">>, <<"3", ".", "0", "0", "0">>}}

\* Placement files: readable ones, and one that no strategy can read
PipelineOutFiles ==
    {[csv |-> TRUE, parses |-> {"read_csv"}, rows |-> rs] :
        rs \in UNION {[1..k -> PipelineRows] : k \in 0..MaxOutRows}}
    \cup {[csv |-> FALSE, parses |-> {}, rows |-> <<>>]}

InitPipeline ==
    /\ monitor_file \in {None} \cup PipelineMonitorFiles
    /\ out_file \in {None} \cup PipelineOutFiles
    /\ factores = HalfQuarterFactors
    /\ factor_outview = DefaultFactor
    /\ df = <<>>
    /\ out = <<>>
    /\ tmp = <<>>
    /\ df_m_raw = EmptyFrame
    /\ df_m = EmptyFrame
    /\ mon_u = EmptyFrame
    /\ out_u = EmptyFrame
    /\ df_c = EmptyFrame
    /\ sheets = {}
    /\ df_result = EmptyFrame
    /\ resumen = None
    /\ raised = NoError
    /\ tried = <<>>
    /\ ServicesIdle
    /\ pc = "start"

NextPipeline ==
    \/ ReadMonitor
    \/ AplicarFactores
    \/ ReadOut
    \/ Transform
    \/ Consolidate
    \/ WriteExcel
    \/ Return

\* procesar_monitor_outview(monitor_file, out_file, factores)
SpecPipeline == InitPipeline /\ [][NextPipeline]_vars

-----------------------------------------------------------------------------
(* Properties of cells that are not numbers *)

\* The broadcast file has been parsed to a table
MonitorParsed == pc # "start" /\ raised \notin {"IndexError", "ValueError"}

\* The non-blank lines after the header line h
DataLinesAfter(lines, h) ==
    SelectSeq(SubSeq(lines, h + 1, Len(lines)), LAMBDA l : Strip(l) # <<>>)

\* The k-th field of a line, empty when the line is shorter
FieldOf(line, k) ==
    LET c == Split(line, "|") IN IF k <= Len(c) THEN c[k] ELSE <<>>

\* The rows of the k_z group of row j whose parsed rate is a number
NumericPeers(j) ==
    {x \in DOMAIN df : z_cols(df[x]) = z_cols(df[j]) /\ ~IsNaN(df[x].Tarifa)}

-----------------------------------------------------------------------------
(* Properties of the unified tables *)

\* Both sources gave rows and the unified tables have been built
Unified ==
    /\ pc \in {"consolidated", "written", "returned"}
    /\ ~ IsEmpty(df_m) /\ out # <<>>

\* The canonical fields
TargetFields == {_TARGET_ORDER[k] : k \in DOMAIN _TARGET_ORDER}

\* The native columns of table f that mapping m, or their own name, sends to
\* the canonical field c
NativeOf(f, m, c) ==
    {k \in DOMAIN f.cols :
        \/ f.cols[k] \in DOMAIN m /\ m[f.cols[k]] = c
        \/ f.cols[k] \notin DOMAIN m /\ f.cols[k] = c}

\* Table u is the projection of table f by mapping m
IsProjection(u, f, m) ==
    /\ u.cols = _TARGET_ORDER
    /\ Cardinality(TargetFields) = Len(u.cols)
    /\ Len(u.rows) = Len(f.rows)
    /\ \A i \in DOMAIN u.rows :
          /\ DOMAIN u.rows[i] = TargetFields
          /\ \A c \in TargetFields :
                NativeOf(f, m, c) = {} => u.rows[i][c] = NULL

-----------------------------------------------------------------------------
(* Properties of the consolidated table *)

\* The number of rows of a sequence equal to row r
CountOf(rows, r) == Cardinality({i \in DOMAIN rows : rows[i] = r})

\* Row r may stand before row s: the dates ascend, rows without a date
\* after every dated row; among rows of one date (or all without a date)
\* the brands ascend, rows without a brand after the others
InOrder(r, s) ==
    LET fr == r["FECHA"]
        fs == s["FECHA"]
        mr == r["MARCA"]
        ms == s["MARCA"]
    IN  \/ fr # NULL /\ fs = NULL
        \/ fr # NULL /\ fs # NULL /\ fr.v < fs.v
        \/ /\ fr = fs
           /\ \/ ms = NULL
              \/ mr # NULL /\ (mr = ms \/ StrLess(mr.v, ms.v))

\* C15: when both tables are non-empty the consolidated table has the
\* unified broadcast rows and the unified placement rows, each as many
\* times as in the two unified tables (row count = sum), in ascending order
\* of (date, brand): rows without a date stand after all dated rows, and
\* within one date rows without a brand stand after the rows with one; the
\* table returned is this consolidated table.
C15_ConsolidatedSorted ==
    Unified =>
       /\ df_c.cols = _TARGET_ORDER
       /\ Len(df_c.rows) = Len(df_m.rows) + Len(out)
       /\ \A i \in DOMAIN df_c.rows :
             CountOf(df_c.rows, df_c.rows[i])
                = CountOf(mon_u.rows \o out_u.rows, df_c.rows[i])
       /\ \A i, j \in DOMAIN df_c.rows :
             i < j => InOrder(df_c.rows[i], df_c.rows[j])
       /\ pc = "returned" => df_result = df_c

\* C15 witness: a broadcast row without a brand, a broadcast row of a later
\* date, a placement row without a date and a placement row of that later
\* date with a brand that sorts first have been consolidated and returned
C15_Witness ==
    /\ pc = "returned"
    /\ Unified
    /\ Len(df_c.rows) = 4
    /\ df_c.rows[1]["FECHA"] = [v |-> D_JAN15]
    /\ df_c.rows[1]["MARCA"] = NULL
    /\ df_c.rows[2]["FECHA"] = [v |-> D_JAN16]
    /\ df_c.rows[2]["MARCA"] = [v |-> ACME]
    /\ df_c.rows[2]["MEDIO"] = NULL
    /\ df_c.rows[3]["MARCA"] = [v |-> BETA]
    /\ df_c.rows[3]["MEDIO"] # NULL
    /\ df_c.rows[4]["FECHA"] = NULL

\* C15 as stated: no row without a date or without a brand stands before a
\* row that has both
C15_NullRowsAfterAllValues ==
    Unified =>
       /\ Len(df_c.rows) = Len(df_m.rows) + Len(out)
       /\ \A i, j \in DOMAIN df_c.rows :
             (/\ i < j
              /\ df_c.rows[j]["FECHA"] # NULL
              /\ df_c.rows[j]["MARCA"] # NULL)
                => (df_c.rows[i]["FECHA"] # NULL /\ df_c.rows[i]["MARCA"] # NULL)

\* The tables of the two sources at the end of the function
MonitorPresent == ~ IsEmpty(df_m)
OutViewPresent == out # <<>>

\* C16: when exactly one source gives a non-empty table no consolidated
\* table is built and the table returned is that source's own table with its
\* native columns: the broadcast table with the channel multipliers applied,
\* or the enriched placement table without its internal columns; when
\* neither source gives rows the table returned is empty.
C16_SingleSourceResult ==
    pc = "returned" =>
       /\ (MonitorPresent /\ ~ OutViewPresent) =>
             /\ IsEmpty(df_c)
             /\ df_result = df_m
       /\ (~ MonitorPresent /\ OutViewPresent) =>
             /\ IsEmpty(df_c)
             /\ df_result.cols
                   = SelectSeq(OutColumns, LAMBDA c : c \notin drop_cols)
             /\ Len(df_result.rows) = Len(out)
             /\ \A i \in DOMAIN out :
                   \A k \in DOMAIN OutColumns :
                      OutColumns[k] \notin drop_cols =>
                         df_result.rows[i][OutColumns[k]]
                            = out[i][OutFields[k]]
       /\ (~ MonitorPresent /\ ~ OutViewPresent) => IsEmpty(df_result)

\* C16 witness: only the placement source gave rows, and the table returned
\* has the native column Fecha and the final rate
C16_Witness ==
    /\ pc = "returned"
    /\ ~ MonitorPresent /\ OutViewPresent
    /\ Len(df_result.rows) = 2
    /\ HasCol(df_result, "Fecha") /\ ~ HasCol(df_result, "FECHA")
    /\ HasCol(df_result, "Tarifa Real ($)")
    /\ ~ HasCol(df_result, "Denominador")
    /\ df_result.rows[1]["Fecha"] = D_JAN16

\* C16 as stated: with exactly one source the table returned is the
\* projection of that source into the columns of _TARGET_ORDER
C16_SingleSourceProjection ==
    pc = "returned" =>
       /\ (MonitorPresent /\ ~ OutViewPresent) =>
             df_result = _to_unified(df_m, _MONITOR_MAP)
       /\ (~ MonitorPresent /\ OutViewPresent) =>
             df_result = _to_unified(OutFrame(out), _OUT_MAP)
       /\ (~ MonitorPresent /\ ~ OutViewPresent) => IsEmpty(df_result)

-----------------------------------------------------------------------------
(* Properties of the workbook *)

\* C17: the workbook has the sheet 'Monitor' exactly when the broadcast
\* source gave a non-empty table, the sheet 'OutView' exactly when the
\* placement source gave one, and the sheet 'Consolidado' exactly when both
\* did; a source that is absent (None) has no sheet.
C17_SheetsPerSource ==
    pc \in {"written", "returned"} =>
       /\ "Monitor" \in sheets <=> MonitorPresent
       /\ "OutView" \in sheets <=> OutViewPresent
       /\ "Consolidado" \in sheets <=> (MonitorPresent /\ OutViewPresent)
       /\ monitor_file = None => "Monitor" \notin sheets
       /\ out_file = None => "OutView" \notin sheets
       /\ (monitor_file = None \/ out_file = None)
             => "Consolidado" \notin sheets

\* C17 witness: a workbook written for a broadcast file alone
C17_Witness ==
    /\ pc = "written"
    /\ monitor_file # None /\ out_file = None
    /\ Len(df_m.rows) = 2
    /\ sheets = {"Monitor"}

-----------------------------------------------------------------------------
(* The summary of a table: resumen_mougli, and the previews of the app *)

_BRAND_CANDS == <<"MARCA", "ANUNCIANTE", "BRAND", "CLIENTE">>
_DATE_MON == <<"DIA">>
_DATE_OUT == <<"Fecha", "FECHA">>

\* _brands_count(df, candidates): the distinct values of the first candidate
\* column of the table, NA (None) when it has none of them.  The cells of a
\* brand column are text or missing, and astype(str) leaves text as it is
_brands_count(f, candidates) ==
    LET found == {k \in DOMAIN candidates : HasCol(f, candidates[k])}
    IN  IF found = {} THEN NA
        ELSE LET c == candidates[CHOOSE k \in found : \A j \in found : k <= j]
             IN  Cardinality({f.rows[i][c] : i \in DOMAIN f.rows} \ {<<>>})

\* Mutant: only the first candidate column that is present is looked at
Mut__date_range(f, candidates) ==
    LET dates(c) == {f.rows[i][c] : i \in DOMAIN f.rows} \ {NaT}
        found == {k \in DOMAIN candidates : HasCol(f, candidates[k])}
    IN  IF found = {} THEN <<>>
        ELSE LET ds == dates(candidates[CHOOSE k \in found :
                                           \A j \in found : k <= j])
             IN  IF ds = {} THEN <<>>
                 ELSE <<CHOOSE d \in ds : \A e \in ds : d <= e,
                        CHOOSE d \in ds : \A e \in ds : e <= d>>

\* _date_range(df, candidates): <<first date, last date>> of the first
\* candidate column that has a date, <<>> for (None, None)
_date_range(f, candidates) ==
    LET dates(c) == {f.rows[i][c] : i \in DOMAIN f.rows} \ {NaT}
        found == {k \in DOMAIN candidates :
                     HasCol(f, candidates[k]) /\ dates(candidates[k]) # {}}
    IN  IF found = {} THEN <<>>
        ELSE LET ds == dates(candidates[CHOOSE k \in found :
                                           \A j \in found : k <= j])
             IN  <<CHOOSE d \in ds : \A e \in ds : d <= e,
                   CHOOSE d \in ds : \A e \in ds : e <= d>>

\* Mutant: the text of the date range is written without looking at the
\* two dates, "None - None" for a table without dates
Mut_resumen_mougli(f, es_monitor) ==
    IF f = None THEN [Filas |-> 0, Rango |-> <<NaT, NaT>>, Marcas |-> 0]
    ELSE LET r == _date_range(f, IF es_monitor THEN _DATE_MON ELSE _DATE_OUT)
             b == _brands_count(f, _BRAND_CANDS)
         IN  [Filas |-> Len(f.rows),
              Rango |-> IF r = <<>> THEN <<NaT, NaT>> ELSE r,
              Marcas |-> IF b = NA THEN 0 ELSE b]

\* resumen_mougli(df, es_monitor): the one row of the table returned; Rango
\* is <<>> for the blank text "" and <<d1, d2>> for "d1 - d2"
resumen_mougli(f, es_monitor) ==
    IF f = None \/ IsEmpty(f)
    THEN [Filas |-> 0, Rango |-> <<>>, Marcas |-> 0]
    ELSE LET r == _date_range(f, IF es_monitor THEN _DATE_MON ELSE _DATE_OUT)
             b == _brands_count(f, _BRAND_CANDS)
         IN  [Filas |-> Len(f.rows),
              Rango |-> r,
              Marcas |-> IF b = NA THEN 0 ELSE b]

\* The parsed placement table as a table with named columns
RawFrame(rows) ==
    LET cs == <<"Fecha">> \o SelectSeq(SubSeq(OutColumns, 5, 20),
                                      LAMBDA c : TRUE)
        fld(c) == OutFields[CHOOSE k \in DOMAIN OutColumns : OutColumns[k] = c]
    IN  [cols |-> cs,
         rows |-> Col([i \in DOMAIN rows |->
                    [c \in {cs[k] : k \in DOMAIN cs} |-> rows[i][fld(c)]]])]

\* The broadcast preview of the app: the file is read and summarised
PreviewMonitor ==
    /\ pc = "start"
    /\ \E o \in {_read_monitor_txt(monitor_file)} :
          /\ df_m_raw' = o.df
          /\ raised' = o.raised
          /\ resumen' = IF o.raised = NoError
                        THEN resumen_mougli(o.df, TRUE) ELSE None
          /\ pc' = IF o.raised = NoError THEN "monitor_previewed"
                   ELSE "raised"
    /\ UNCHANGED service_vars
    /\ UNCHANGED <<df, factor_outview, out, tmp, monitor_file, out_file,
                   factores, df_m, mon_u, out_u, df_c, sheets, df_result,
                   tried>>

\* The placement preview of the app
PreviewOut ==
    /\ pc = "start"
    /\ \E o \in _read_out_robusto(out_file) :
          /\ tried' = o.tried
          /\ df' = o.df
          /\ raised' = o.raised
          /\ resumen' = IF o.raised = NoError
                        THEN resumen_mougli(RawFrame(o.df), FALSE) ELSE None
          /\ pc' = IF o.raised = NoError THEN "out_previewed" ELSE "raised"
    /\ UNCHANGED service_vars
    /\ UNCHANGED <<factor_outview, out, tmp, monitor_file, out_file,
                   factores, df_m_raw, df_m, mon_u, out_u, df_c, sheets,
                   df_result>>

NextMougli ==
    \/ NextPipeline
    \/ PreviewMonitor
    \/ PreviewOut

\* The whole function and the two previews
SpecMougli == InitPipeline /\ [][NextMougli]_vars

-----------------------------------------------------------------------------
(* Properties of empty input *)

\* An empty byte stream, or one with blank lines only
EmptyStream(file) ==
    file # None /\ \A l \in DOMAIN _decode_bytes(file).text :
                      Strip(_decode_bytes(file).text[l]) = <<>>

EmptyMonitor == monitor_file = None \/ EmptyStream(monitor_file)

\* C18: empty input does not raise.  An absent (None) broadcast source, an
\* empty broadcast byte stream, and an absent placement source (which is
\* also what an empty file list gives) each parse to an empty table without
\* an exception; procesar_monitor_outview of two such sources returns an
\* empty table; resumen_mougli of an empty table or of None is
\* {Filas: 0, Rango de fechas: "", Marcas / Anunciantes: 0}.
C18_EmptyInput ==
    /\ (EmptyMonitor /\ pc # "start") =>
          /\ raised \notin {"IndexError", "ValueError"}
          /\ IsEmpty(df_m_raw)
          /\ IsEmpty(df_m)
    /\ (EmptyMonitor /\ pc = "monitor_previewed") =>
          resumen = [Filas |-> 0, Rango |-> <<>>, Marcas |-> 0]
    /\ (out_file = None
          /\ pc \notin {"start", "monitor_read", "factored",
                        "monitor_previewed"}) =>
          /\ raised # "Exception"
          /\ df = <<>>
          /\ out = <<>>
    /\ (out_file = None /\ pc = "out_previewed") =>
          resumen = [Filas |-> 0, Rango |-> <<>>, Marcas |-> 0]
    /\ (EmptyMonitor /\ out_file = None) =>
          /\ pc # "raised"
          /\ pc = "returned" => IsEmpty(df_result)
    /\ \A b \in BOOLEAN :
          /\ resumen_mougli(None, b)
                = [Filas |-> 0, Rango |-> <<>>, Marcas |-> 0]
          /\ resumen_mougli(EmptyFrame, b)
                = [Filas |-> 0, Rango |-> <<>>, Marcas |-> 0]
          /\ resumen_mougli(Diagnostic(<<>>), b)
                = [Filas |-> 0, Rango |-> <<>>, Marcas |-> 0]

\* C18 witness: the function has returned for an empty broadcast byte
\* stream and no placement source
C18_Witness ==
    /\ pc = "returned"
    /\ monitor_file # None /\ _decode_bytes(monitor_file).text = <<>>
    /\ out_file = None
    /\ raised = NoError
    /\ df_m_raw = Diagnostic(<<>>)
    /\ IsEmpty(df_result)
    /\ sheets = {}

-----------------------------------------------------------------------------
(* Properties of the two readers on files they cannot parse *)

\* C19: _read_monitor_txt raises on no byte input.  The text is the decoding
\* under the first of utf-8-sig, latin-1, cp1252 that decodes the bytes;
\* without the sentinel "|MEDIO|" (in either letter case) in the first 80
\* lines the result is the one-column table of the non-blank raw lines;
\* with it, a table is returned with one row per data line after the header
\* line, also when there is no data line.
C19_ReaderNeverRaises ==
    (pc # "start" /\ monitor_file # None) =>
       LET first == CHOOSE k \in DOMAIN Encodings :
                       /\ Encodings[k] \in monitor_file.decodable
                       /\ \A j \in 1..(k - 1) :
                             Encodings[j] \notin monitor_file.decodable
           lines == monitor_file.text[Encodings[first]]
           hits == {i \in 1..Len(lines) :
                       i <= HeaderScan /\ Contains(Upper(lines[i]), SENTINEL)}
       IN  /\ raised = NoError
           /\ hits = {} =>
                 /\ df_m_raw.cols = <<"linea">>
                 /\ df_m_raw.rows
                      = Col([i \in DOMAIN DataLinesAfter(lines, 0) |->
                               [linea |-> DataLinesAfter(lines, 0)[i]]])
           /\ hits # {} =>
                 LET h == CHOOSE i \in hits : \A j \in hits : i <= j
                 IN  Len(df_m_raw.rows) = Len(DataLinesAfter(lines, h))

\* C20: _read_out_robusto tries the fast batch read, then the row-streaming
\* reader, then the CSV read with the other delimiter and encoding; the
\* table of the first strategy able to read the file is returned, and when
\* none is able an empty table is returned and nothing is raised.
C20_OrderedFallbackToEmpty ==
    (pc \in {"read", "raised"} /\ out_file # None) =>
       LET claimed ==
              <<IF out_file.csv THEN "read_csv" ELSE "read_excel",
                "load_workbook", "read_csv_latin1">>
           able == {k \in DOMAIN claimed : claimed[k] \in out_file.parses}
       IN  /\ raised = NoError
           /\ able = {} => (tried = claimed /\ df = <<>>)
           /\ able # {} =>
                 /\ tried = SubSeq(claimed, 1,
                                   CHOOSE k \in able : \A j \in able : k <= j)
                 /\ Len(df) = Len(out_file.rows)

-----------------------------------------------------------------------------
(***************************************************************************)
(* The configuration store factores_config.json (lines 22-61) and its use  *)
(* at the entry of procesar_monitor_outview (lines 546-547) and of         *)
(* worker_run (lines 740-741).  The file is either absent, not loadable    *)
(* (not JSON, or JSON that is not an object with a mapping under           *)
(* "outview"), or a JSON object whose keys "monitor" and "outview" ->      *)
(* "tarifa_superficie_factor" may each be absent.                          *)
(***************************************************************************)
Missing == [exists |-> FALSE]
Unreadable == [exists |-> TRUE, loadable |-> FALSE]

\* a loadable file with both keys: mon under "monitor", ov under "outview"
ConfigFile(mon, ov) ==
    [exists |-> TRUE, loadable |-> TRUE, keys |-> {"monitor", "outview"},
     monitor |-> mon, outview |-> ov]

\* the same file without the keys ks
Without(file, ks) ==
    [file EXCEPT !.keys = @ \ ks,
                 !.monitor = IF "monitor" \in ks THEN <<>> ELSE @,
                 !.outview = IF "outview" \in ks THEN NaN ELSE @]

\* {"monitor": _DEFAULT_MONITOR.copy(), "outview": _DEFAULT_OUTVIEW.copy()}
DefaultConfig == ConfigFile(_DEFAULT_MONITOR, DefaultFactor)

\* the three setdefault calls of lines 32-34
cfg_setdefault(file) ==
    ConfigFile(IF "monitor" \in file.keys THEN file.monitor
               ELSE _DEFAULT_MONITOR,
               IF "outview" \in file.keys THEN file.outview
               ELSE DefaultFactor)

\* _load_cfg: the configuration it returns, the file it leaves, and whether
\* it read the file's text (line 31) and wrote the file (line 39)
_load_cfg(file) ==
    IF file.exists /\ file.loadable
    THEN [cfg |-> cfg_setdefault(file), file |-> file, io |-> <<"read">>]
    ELSE [cfg |-> DefaultConfig, file |-> DefaultConfig,
          io |-> IF file.exists THEN <<"read", "write">> ELSE <<"write">>]

\* load_monitor_factors / load_outview_factor: the value of one key of the
\* configuration that _load_cfg returns
load_monitor_factors(file) ==
    [_load_cfg(file) EXCEPT !.cfg = @.monitor]

load_outview_factor(file) ==
    [_load_cfg(file) EXCEPT !.cfg = @.outview]

\* An optional argument: None, or a value
Given(v) == [given |-> TRUE, value |-> v]
NoMapping == [given |-> FALSE, value |-> <<>>]
NoNumber == [given |-> FALSE, value |-> NaN]

\* bool(x) of an optional mapping: None and {} are false
Truthy(x) == x.given /\ DOMAIN x.value # {}

\* Contents of the store at the start of an invocation
ConfigFiles ==
    {Missing, Unreadable, DefaultConfig,
     ConfigFile(HalfQuarterFactors, <<3, 2>>),
     ConfigFile(<<>>, <<3, 2>>),
     Without(ConfigFile(<<>>, <<3, 2>>), {"monitor"}),
     Without(ConfigFile(NeutralFactors, NaN), {"outview"}),
     Without(ConfigFile(<<>>, NaN), {"monitor", "outview"})}

\* factores as a caller passes it: None, {} or a mapping
FactoresArgs == {NoMapping, Given(<<>>), Given(HalfQuarterFactors)}

\* outview_factor as a caller passes it: None or a number
OutviewFactorArgs == {NoNumber, Given(<<0, 1>>), Given(<<2, 1>>)}

\* One invocation: of procesar_monitor_outview (pc "procesar"; the command
\* line passes None, None at line 789), or of the worker (pc "worker_run"),
\* whose args.factores_json and args.outview_factor are texts, "" when the
\* option was not given: call.factores is then the mapping that the text
\* encodes and call.outview_factor the number it spells.  cfg keeps the file
\* as it was and what has been done to it
InitConfigRead ==
    /\ PlacementIdle
    /\ monitor_file = None
    /\ factores = <<>>
    /\ df_m_raw = EmptyFrame
    /\ df_m = EmptyFrame
    /\ mon_u = EmptyFrame
    /\ out_u = EmptyFrame
    /\ df_c = EmptyFrame
    /\ sheets = {}
    /\ df_result = EmptyFrame
    /\ resumen = None
    /\ raised = NoError
    /\ tried = <<>>
    /\ CONFIG_PATH \in ConfigFiles
    /\ cfg = [before |-> CONFIG_PATH, io |-> <<>>]
    /\ pc \in {"procesar", "worker_run"}
    /\ call \in [factores : FactoresArgs, outview_factor : OutviewFactorArgs]
    /\ progress_json = Idle
    /\ worker = Idle
    /\ ui = Idle
    /\ db = Idle

config_unchanged ==
    UNCHANGED <<df, out, tmp, monitor_file, out_file, df_m_raw, df_m, mon_u,
                out_u, df_c, sheets, df_result, resumen, raised, tried,
                progress_json, worker, ui, db>>

\* worker_run, lines 740-741: an option text that is not "" is decoded,
\* otherwise the store is loaded; the two values are passed on to
\* procesar_monitor_outview (line 748)
WorkerLoadFactors ==
    /\ pc = "worker_run"
    /\ \E m \in {IF call.factores.given
                 THEN [cfg |-> call.factores.value, file |-> CONFIG_PATH,
                       io |-> <<>>]
                 ELSE load_monitor_factors(CONFIG_PATH)} :
       \E o \in {IF call.outview_factor.given
                 THEN [cfg |-> call.outview_factor.value, file |-> m.file,
                       io |-> <<>>]
                 ELSE load_outview_factor(m.file)} :
          /\ call' = [factores |-> Given(m.cfg), outview_factor |-> Given(o.cfg)]
          /\ CONFIG_PATH' = o.file
          /\ cfg' = [cfg EXCEPT !.io = @ \o m.io \o o.io]
    /\ pc' = "procesar"
    /\ UNCHANGED <<factores, factor_outview>>
    /\ config_unchanged

\* procesar_monitor_outview, lines 546-547:
\*   factores = factores or load_monitor_factors()
\*   outview_factor = float(outview_factor if outview_factor is not None
\*                          else load_outview_factor())
ProcesarLoadFactors ==
    /\ pc = "procesar"
    /\ \E m \in {IF Truthy(call.factores)
                 THEN [cfg |-> call.factores.value, file |-> CONFIG_PATH,
                       io |-> <<>>]
                 ELSE load_monitor_factors(CONFIG_PATH)} :
       \E o \in {IF call.outview_factor.given
                 THEN [cfg |-> call.outview_factor.value, file |-> m.file,
                       io |-> <<>>]
                 ELSE load_outview_factor(m.file)} :
          /\ factores' = m.cfg
          /\ factor_outview' = o.cfg
          /\ CONFIG_PATH' = o.file
          /\ cfg' = [cfg EXCEPT !.io = @ \o m.io \o o.io]
    /\ pc' = "configured"
    /\ UNCHANGED call
    /\ config_unchanged

NextConfigRead == WorkerLoadFactors \/ ProcesarLoadFactors

\* The configuration reads of one invocation of the pipeline
SpecConfigRead == InitConfigRead /\ [][NextConfigRead]_vars

\* Number of occurrences of the event e in the log s
RECURSIVE Occurrences(_, _)
Occurrences(s, e) ==
    IF s = <<>> THEN 0
    ELSE (IF s[1] = e THEN 1 ELSE 0) + Occurrences(Tail(s), e)

\* C21: once an invocation has its multipliers and surface factor, the
\* store has been read at most once and never written, and holds what it
\* held before the invocation, also when it was missing or unreadable and
\* when the caller passed no mapping or an empty one
C21_StoreReadOnceNeverWritten ==
    pc = "configured" =>
        /\ Occurrences(cfg.io, "read") <= 1
        /\ Occurrences(cfg.io, "write") = 0
        /\ CONFIG_PATH = cfg.before

-----------------------------------------------------------------------------
(***************************************************************************)
(* The background job: the Streamlit process starts the worker and polls   *)
(* progress.json (src/app.py, _start_worker and _read_progress); the       *)
(* worker process runs worker_run (lines 711-768) and publishes its        *)
(* progress records with _json_atomic_write (lines 629-633).               *)
(*                                                                         *)
(* progress_json is the job directory as far as the progress file goes:    *)
(* path is progress.json, tmp is progress.json.tmp, inodes counts the      *)
(* files created so far.  A file is absent, or an inode with a complete    *)
(* JSON text (its payload), or an inode whose text has been truncated and  *)
(* not yet written whole.  Messages are spelled without their final        *)
(* ellipsis.                                                               *)
(***************************************************************************)
total_steps == 6

NoFile == [exists |-> FALSE]
File(ino, payload) ==
    [exists |-> TRUE, ino |-> ino, complete |-> TRUE, payload |-> payload]
Truncated(ino) == [exists |-> TRUE, ino |-> ino, complete |-> FALSE]

\* the payload of _progress (line 645); pid is os.getpid() of the worker
_progress(status, step, total, message) ==
    [status |-> status, step |-> step, total |-> total, message |-> message,
     pid |-> "worker"]

Mut__json_atomic_write(fs, payload, phase) ==
    CASE phase = 1 ->
           [fs EXCEPT !.path = IF fs.path.exists THEN Truncated(fs.path.ino)
                                ELSE Truncated(fs.inodes + 1),
                      !.inodes = IF fs.path.exists THEN @ ELSE @ + 1]
      [] phase = 2 -> [fs EXCEPT !.path = File(fs.path.ino, payload)]
      [] phase = 3 -> fs

\* _json_atomic_write in three steps: tmp.write_text opens (and truncates or
\* creates) the temporary file, writes the text, and tmp.replace(path) puts
\* the temporary inode in the place of progress.json
_json_atomic_write(fs, payload, phase) ==
    CASE phase = 1 ->
           [fs EXCEPT !.tmp = IF fs.tmp.exists THEN Truncated(fs.tmp.ino)
                               ELSE Truncated(fs.inodes + 1),
                      !.inodes = IF fs.tmp.exists THEN @ ELSE @ + 1]
      [] phase = 2 -> [fs EXCEPT !.tmp = File(fs.tmp.ino, payload)]
      [] phase = 3 -> [fs EXCEPT !.path = fs.tmp, !.tmp = NoFile]

\* path.write_text(text) in its two steps, on the file system fs: open for
\* writing truncates the file that is at the path (or creates it) and returns
\* a handle on that inode; the text then goes to the handle's inode, which
\* may no longer be the one at the path
write_text_open(fs) ==
    [fs EXCEPT !.path = IF fs.path.exists THEN Truncated(fs.path.ino)
                        ELSE Truncated(fs.inodes + 1),
               !.inodes = IF fs.path.exists THEN @ ELSE @ + 1]

write_text_write(fs, handle, payload) ==
    IF fs.path.exists /\ fs.path.ino = handle
    THEN [fs EXCEPT !.path = File(handle, payload)]
    ELSE fs

\* _read_progress (app.py 239-246)
_read_progress(fs) ==
    IF fs.path.exists
    THEN IF fs.path.complete THEN fs.path.payload
         ELSE [status |-> "unknown", message |-> "progress.json corrupto"]
    ELSE [status |-> "unknown", message |-> "sin progreso"]

\* the record that _start_worker writes at app.py line 237
InitialRecord ==
    [status |-> "running", step |-> 0, total |-> 6,
     message |-> "Inicializando"]

\* The statements of worker_run that write a progress record, by line
ProgressLines == {"718", "729", "734", "739", "756", "762", "768"}

\* The statements of worker_run that can raise and are modelled as raising
\* when their line is in worker.faults: the two combine calls, the pipeline
\* call, the write of the workbook and the appends to job.log at the end of
\* the try block and in the handler
FaultLines == {"730", "735", "747", "759", "763", "767"}

Mut_ProgressPayload(w) ==
    CASE w.pc = "718" -> _progress("running", 0, total_steps, "Inicializando")
      [] w.pc = "729" ->
           _progress("running", w.step, total_steps, "Combinando Monitor")
      [] w.pc = "734" ->
           _progress("running", w.step, total_steps, "Combinando OutView")
      [] w.pc = "739" ->
           _progress("running", w.step, total_steps, "Generando Excel")
      [] w.pc = "756" ->
           _progress("running", w.step, total_steps, "Procesando cálculos")
      [] w.pc = "762" -> _progress("done", w.step, total_steps, "Completado")
      [] w.pc = "768" -> _progress("error", 1, 1, w.e)

\* the record written at line w.pc
ProgressPayload(w) ==
    CASE w.pc = "718" -> _progress("running", 0, total_steps, "Inicializando")
      [] w.pc = "729" ->
           _progress("running", w.step, total_steps, "Combinando Monitor")
      [] w.pc = "734" ->
           _progress("running", w.step, total_steps, "Combinando OutView")
      [] w.pc = "739" ->
           _progress("running", w.step, total_steps, "Procesando cálculos")
      [] w.pc = "756" ->
           _progress("running", w.step, total_steps, "Generando Excel")
      [] w.pc = "762" -> _progress("done", w.step, total_steps, "Completado")
      [] w.pc = "768" -> _progress("error", 1, 1, w.e)

\* lines 732-737: step += 1, the placement branch, step += 1
From732(w) ==
    IF w.out_inputs THEN [w EXCEPT !.pc = "734", !.step = @ + 1]
    ELSE [w EXCEPT !.pc = "739", !.step = @ + 2]

\* lines 727-728: step = 1 and the broadcast branch
From727(w) ==
    IF w.mon_inputs THEN [w EXCEPT !.pc = "729", !.step = 1]
    ELSE From732([w EXCEPT !.step = 1])

\* The worker after the statement at w.pc has completed without raising
After(w) ==
    CASE w.pc = "718" -> From727(w)
      [] w.pc = "729" -> [w EXCEPT !.pc = "730"]
      [] w.pc = "730" -> [w EXCEPT !.pc = "731"]
      [] w.pc = "731" -> From732(w)
      [] w.pc = "734" -> [w EXCEPT !.pc = "735"]
      [] w.pc = "735" -> [w EXCEPT !.pc = "736"]
      [] w.pc = "736" -> [w EXCEPT !.pc = "739", !.step = @ + 1]
      [] w.pc = "739" -> [w EXCEPT !.pc = "747"]
      [] w.pc = "747" -> [w EXCEPT !.pc = "756", !.step = @ + 1]
      [] w.pc = "756" -> [w EXCEPT !.pc = "759"]
      [] w.pc = "759" -> [w EXCEPT !.pc = "762", !.step = @ + 1]
      [] w.pc = "762" -> [w EXCEPT !.pc = "763"]
      [] w.pc = "763" -> [w EXCEPT !.pc = "returned"]
      [] w.pc = "767" -> [w EXCEPT !.pc = "768"]
      [] w.pc = "768" -> [w EXCEPT !.pc = "returned"]

\* except Exception as e (line 766), from a statement of the try block; an
\* exception in the handler itself leaves worker_run
Raise(w, name) ==
    IF w.pc \in {"767", "768"} THEN [w EXCEPT !.pc = "raised", !.e = name]
    ELSE [w EXCEPT !.pc = "767", !.e = name]

\* The stages of procesar_monitor_outview (lines 549-606), which holds no
\* call of _progress: parse (550, 554), factor (551), identity/grouping and
\* normalize/cap (555), unify (558-562), serialize (568-606)
procesar_stages ==
    <<"parse", "factor", "identity/grouping", "normalize/cap", "unify",
      "serialize">>

Record(payload) == [kind |-> "record", payload |-> payload]
Work(name) == [kind |-> "work", name |-> name]

\* Injected failures: at most MaxFaults statements of FaultLines raise
MaxFaults == 2

FaultSets == {F \in SUBSET FaultLines : Cardinality(F) <= MaxFaults}

\* A job before _start_worker: no progress file, the worker not started
InitJob ==
    /\ PlacementIdle
    /\ monitor_file = None
    /\ factores = <<>>
    /\ df_m_raw = EmptyFrame
    /\ df_m = EmptyFrame
    /\ mon_u = EmptyFrame
    /\ out_u = EmptyFrame
    /\ df_c = EmptyFrame
    /\ sheets = {}
    /\ df_result = EmptyFrame
    /\ resumen = None
    /\ raised = NoError
    /\ tried = <<>>
    /\ pc = "job"
    /\ CONFIG_PATH = Idle
    /\ cfg = Idle
    /\ call = Idle
    /\ db = Idle
    /\ progress_json = [path |-> NoFile, tmp |-> NoFile, inodes |-> 0]
    /\ \E m \in BOOLEAN, o \in BOOLEAN, F \in FaultSets :
          worker = [pc |-> "not_started", phase |-> 0, step |-> 0,
                    mon_inputs |-> m, out_inputs |-> o, faults |-> F,
                    e |-> NoError, xlsx |-> "absent", trace |-> <<>>]
    /\ ui = [pc |-> "start", handle |-> 0,
             last |-> [status |-> "unread"]]

job_unchanged ==
    UNCHANGED <<df, factor_outview, out, tmp, pc, monitor_file, out_file,
                factores, df_m_raw, df_m, mon_u, out_u, df_c, sheets,
                df_result, resumen, raised, tried, CONFIG_PATH, cfg, call, db>>

\* _start_worker, line 235: Popen starts the worker process
StartWorker ==
    /\ ui.pc = "start"
    /\ ui' = [ui EXCEPT !.pc = "launched"]
    /\ worker' = [worker EXCEPT !.pc = "718"]
    /\ UNCHANGED progress_json
    /\ job_unchanged

\* _start_worker, line 237: progress.write_text(...) opens progress.json
UiOpenProgress ==
    /\ ui.pc = "launched"
    /\ progress_json' = write_text_open(progress_json)
    /\ ui' = [ui EXCEPT !.pc = "writing", !.handle = progress_json'.path.ino]
    /\ UNCHANGED worker
    /\ job_unchanged

\* _start_worker, line 237: the text of the initial record is written
UiWriteProgress ==
    /\ ui.pc = "writing"
    /\ progress_json' =
          write_text_write(progress_json, ui.handle, InitialRecord)
    /\ ui' = [ui EXCEPT !.pc = "polling"]
    /\ UNCHANGED worker
    /\ job_unchanged

\* the page polls the job: prog = _read_progress(job_dir) (app.py 325)
ReadProgress ==
    /\ ui.pc = "polling"
    /\ ui' = [ui EXCEPT !.last = _read_progress(progress_json)]
    /\ UNCHANGED <<progress_json, worker>>
    /\ job_unchanged

\* _progress at a line of ProgressLines: the temporary file is opened
ProgressOpenTmp ==
    /\ worker.pc \in ProgressLines
    /\ worker.phase = 0
    /\ progress_json' =
          _json_atomic_write(progress_json, ProgressPayload(worker), 1)
    /\ worker' = [worker EXCEPT !.phase = 1]
    /\ UNCHANGED ui
    /\ job_unchanged

\* _progress: the record is written to the temporary file
ProgressWriteTmp ==
    /\ worker.pc \in ProgressLines
    /\ worker.phase = 1
    /\ progress_json' =
          _json_atomic_write(progress_json, ProgressPayload(worker), 2)
    /\ worker' = [worker EXCEPT !.phase = 2]
    /\ UNCHANGED ui
    /\ job_unchanged

\* _progress: the temporary file replaces progress.json; the record is
\* published
ProgressReplace ==
    /\ worker.pc \in ProgressLines
    /\ worker.phase = 2
    /\ progress_json' =
          _json_atomic_write(progress_json, ProgressPayload(worker), 3)
    /\ worker' = After([worker EXCEPT
                          !.phase = 0,
                          !.trace = Append(@, Record(ProgressPayload(worker)))])
    /\ UNCHANGED ui
    /\ job_unchanged

\* lines 730 and 735: _combine_monitor_txt / _combine_outview_to_csv
Combine ==
    /\ worker.pc \in {"730", "735"}
    /\ worker' =
          IF worker.pc \in worker.faults THEN Raise(worker, "OSError: combine")
          ELSE After([worker EXCEPT
                        !.trace = Append(@, Work(IF worker.pc = "730"
                                                 THEN "combine_monitor"
                                                 ELSE "combine_outview"))])
    /\ UNCHANGED <<progress_json, ui>>
    /\ job_unchanged

\* lines 731, 736, 763 and 767: _log_append(logf, ...)
LogAppend ==
    /\ worker.pc \in {"731", "736", "763", "767"}
    /\ worker' =
          IF worker.pc \in worker.faults THEN Raise(worker, "OSError: log")
          ELSE After(worker)
    /\ UNCHANGED <<progress_json, ui>>
    /\ job_unchanged

\* lines 740-753: the factors and the call of procesar_monitor_outview,
\* which runs all its stages before it returns
Procesar ==
    /\ worker.pc = "747"
    /\ worker' =
          IF worker.pc \in worker.faults THEN Raise(worker, "ValueError: data")
          ELSE After([worker EXCEPT
                        !.trace = @ \o [i \in DOMAIN procesar_stages |->
                                          Work(procesar_stages[i])]])
    /\ UNCHANGED <<progress_json, ui>>
    /\ job_unchanged

\* lines 757-759: the workbook is written to the output path; a failure
\* leaves the file opened and not written whole
WriteWorkbook ==
    /\ worker.pc = "759"
    /\ worker' =
          IF worker.pc \in worker.faults
          THEN Raise([worker EXCEPT !.xlsx = "partial"], "OSError: workbook")
          ELSE After([worker EXCEPT
                        !.xlsx = "complete",
                        !.trace = Append(@, Work("write_workbook"))])
    /\ UNCHANGED <<progress_json, ui>>
    /\ job_unchanged

WorkerStep ==
    \/ ProgressOpenTmp
    \/ ProgressWriteTmp
    \/ ProgressReplace
    \/ Combine
    \/ LogAppend
    \/ Procesar
    \/ WriteWorkbook

NextJob ==
    \/ StartWorker
    \/ UiOpenProgress
    \/ UiWriteProgress
    \/ ReadProgress
    \/ WorkerStep

\* One job: the page's _start_worker and polling, interleaved with the
\* worker process
SpecJob == InitJob /\ [][NextJob]_vars

\* The progress records that the worker has published, in order
IsRecord(ev) == ev.kind = "record"

Published ==
    [i \in 1..Len(SelectSeq(worker.trace, IsRecord)) |->
        SelectSeq(worker.trace, IsRecord)[i].payload]

Terminal(p) == p.status \in {"done", "error"}

IsStage(ev) ==
    /\ ev.kind = "work"
    /\ \E k \in DOMAIN procesar_stages : procesar_stages[k] = ev.name

\* The message of the record under which a piece of work is done
Announce(name) ==
    CASE name = "combine_monitor" -> "Combinando Monitor"
      [] name = "combine_outview" -> "Combinando OutView"
      [] name = "write_workbook" -> "Generando Excel"
      [] OTHER -> "Procesando cálculos"

\* C22 as stated: a progress record is written at each transition from one
\* pipeline stage to the next, so no two stages complete without a record
\* between them
C22_RecordAtEachStageTransition ==
    \A i \in 1..(Len(worker.trace) - 1) :
        ~(IsStage(worker.trace[i]) /\ IsStage(worker.trace[i + 1]))

\* C22 (amended): the worker writes its records at its own steps, in the
\* order initialising, combining broadcast files, combining placement
\* files, processing, writing the workbook, done; every piece of work is
\* done under the last record written, which announces it, so no record of
\* a step is written before the work of the preceding step has completed;
\* and all stages of the pipeline run, in their order, under the single
\* record "Procesando cálculos"
C22_RecordsAtWorkerSteps ==
    /\ \A i \in DOMAIN worker.trace :
          worker.trace[i].kind = "work" =>
             \E j \in 1..(i - 1) :
                /\ IsRecord(worker.trace[j])
                /\ worker.trace[j].payload.message =
                      Announce(worker.trace[i].name)
                /\ \A k \in (j + 1)..(i - 1) : worker.trace[k].kind = "work"
    /\ \A i, j \in DOMAIN Published :
          (i < j /\ Published[j].status # "error") =>
             Published[i].step < Published[j].step
    /\ \A i, j \in DOMAIN worker.trace :
          (i < j /\ IsStage(worker.trace[i]) /\ IsStage(worker.trace[j])) =>
             \E a, b \in DOMAIN procesar_stages :
                /\ a < b
                /\ procesar_stages[a] = worker.trace[i].name
                /\ procesar_stages[b] = worker.trace[j].name

\* a run with both kinds of input that has published all six records
C22_Witness ==
    /\ worker.pc = "returned"
    /\ worker.mon_inputs /\ worker.out_inputs
    /\ Len(Published) = 6
    /\ Published[6].status = "done"

\* C23: every run of worker_run ends with exactly one outcome, 'done' or
\* 'error', as its last record; 'done' is published only after the workbook
\* has been written whole; no record follows 'done'
C23_SingleFinalOutcome ==
    /\ worker.pc \in {"returned", "raised"} =>
          /\ Len(Published) > 0
          /\ Terminal(Published[Len(Published)])
          /\ Cardinality({i \in DOMAIN Published : Terminal(Published[i])}) = 1
    /\ \A i \in DOMAIN Published :
          Published[i].status = "done" =>
             /\ worker.xlsx = "complete"
             /\ i = Len(Published)

\* C27: on a run that raises no exception the steps of the records are
\* strictly increasing, every record has 0 <= step <= total = 6, and the
\* final 'done' record has step = total
C27_StepsReachTotal ==
    (worker.pc = "returned" /\ worker.e = NoError) =>
        /\ \A i, j \in DOMAIN Published :
              i < j => Published[i].step < Published[j].step
        /\ \A i \in DOMAIN Published :
              /\ Published[i].total = 6
              /\ 0 <= Published[i].step
              /\ Published[i].step <= Published[i].total
        /\ Published[Len(Published)].status = "done"
        /\ Published[Len(Published)].step = Published[Len(Published)].total

\* C25: in every interleaving of the page with the worker, once the worker
\* has published a terminal record a read of progress.json returns that
\* terminal status; the initial 'running' record never takes its place
C25_TerminalNeverOverwritten ==
    (Len(Published) > 0 /\ Terminal(Published[Len(Published)])) =>
        _read_progress(progress_json).status =
            Published[Len(Published)].status

\* What a read of progress.json may return: 'unknown', the page's initial
\* record, or a record that the worker has published
WholeRecord(r) ==
    \/ r.status = "unknown"
    \/ r = InitialRecord
    \/ \E i \in DOMAIN Published : Published[i] = r

\* C26: the worker's records reach progress.json whole: the file is never
\* seen with a partly written text unless the page's own write_text is under
\* way, and _read_progress returns a whole record or 'unknown'
C26_ReaderSeesWholeRecords ==
    /\ (progress_json.path.exists /\ ~progress_json.path.complete) =>
          ui.pc = "writing"
    /\ WholeRecord(_read_progress(progress_json))
    /\ ui.last.status # "unread" => WholeRecord(ui.last)

\* the page reads a whole worker record while the worker's next record is
\* partly written in the temporary file
C26_Witness ==
    /\ ui.pc = "polling"
    /\ progress_json.tmp.exists
    /\ ~progress_json.tmp.complete
    /\ ui.last = _read_progress(progress_json)
    /\ "pid" \in DOMAIN ui.last
    /\ ui.last.step = 3

-----------------------------------------------------------------------------
(***************************************************************************)
(* resumen_mougli as a function of any non-empty table (lines 410-437).    *)
(***************************************************************************)
\* Largest number of rows of a summarised table
MaxResumenRows == 2

\* Column layouts: broadcast; placement with both date columns; unified;
\* second brand candidate only; no candidate at all; both date columns and
\* two brand candidates in reverse order
ResumenLayouts ==
    <<(<<"DIA", "MARCA">>),
      (<<"Fecha", "FECHA", "Marca">>),
      (<<"FECHA", "MARCA", "ANUNCIANTE">>),
      (<<"Fecha", "ANUNCIANTE", "CLIENTE">>),
      (<<"linea">>),
      (<<"FECHA", "Fecha", "ANUNCIANTE", "MARCA">>)>>

ResumenBrands == <<"ACME", "BETA">>

\* The cell of column c in a row with date d in its first date column, date
\* e in "FECHA", and brand number b (0: missing) in "MARCA"
ResumenCell(c, d, e, b) ==
    CASE c \in {"DIA", "Fecha"} -> d
      [] c = "FECHA" -> e
      [] c \in {"MARCA", "Marca"} -> IF b = 0 THEN <<>> ELSE ResumenBrands[b]
      [] OTHER -> "GAMMA"

\* A table of layout cs whose row i has the dates and brand of t[i]
ResumenFrame(cs, t) ==
    [cols |-> cs,
     rows |-> [i \in DOMAIN t |->
                 [c \in {cs[k] : k \in DOMAIN cs} |->
                     ResumenCell(c, t[i][1], t[i][2], t[i][3])]]]

ResumenRowChoices == {NaT, D_JAN15, D_JAN16} \X {NaT, D_JAN16} \X (0..2)

\* A call resumen_mougli(df, es_monitor) on a non-empty table
InitResumen ==
    /\ PlacementIdle
    /\ monitor_file = None
    /\ factores = <<>>
    /\ df_m_raw = EmptyFrame
    /\ df_m = EmptyFrame
    /\ mon_u = EmptyFrame
    /\ out_u = EmptyFrame
    /\ df_c = EmptyFrame
    /\ sheets = {}
    /\ df_result = EmptyFrame
    /\ resumen = None
    /\ raised = NoError
    /\ tried = <<>>
    /\ pc = "resumen"
    /\ CONFIG_PATH = Idle
    /\ cfg = Idle
    /\ progress_json = Idle
    /\ worker = Idle
    /\ ui = Idle
    /\ db = Idle
    /\ \E l \in DOMAIN ResumenLayouts, n \in 1..MaxResumenRows,
          es_monitor \in BOOLEAN :
          \E t \in [1..n -> ResumenRowChoices] :
             call = [df |-> ResumenFrame(ResumenLayouts[l], t),
                     es_monitor |-> es_monitor]

Resumir ==
    /\ pc = "resumen"
    /\ resumen' = resumen_mougli(call.df, call.es_monitor)
    /\ pc' = "resumido"
    /\ UNCHANGED <<df, factor_outview, out, tmp, monitor_file, out_file,
                   factores, df_m_raw, df_m, mon_u, out_u, df_c, sheets,
                   df_result, raised, tried>>
    /\ UNCHANGED service_vars

NextResumen == Resumir

SpecResumen == InitResumen /\ [][NextResumen]_vars

\* the candidate date columns of the call
CallDateCands == IF call.es_monitor THEN _DATE_MON ELSE _DATE_OUT

\* the valid dates of column c of the summarised table
ValidDates(c) ==
    {call.df.rows[i][c] : i \in DOMAIN call.df.rows} \ {NaT}

RangeOf(ds) ==
    <<CHOOSE d \in ds : \A e \in ds : d <= e,
      CHOOSE d \in ds : \A e \in ds : e <= d>>

\* rows and brands as C24 states them: the number of rows, and the number
\* of distinct non-null values of the first brand candidate that is a column
\* of the table, 0 when none is
RowsAndBrandsAsStated ==
    /\ resumen.Filas = Len(call.df.rows)
    /\ \/ /\ \A k \in DOMAIN _BRAND_CANDS : ~HasCol(call.df, _BRAND_CANDS[k])
          /\ resumen.Marcas = 0
       \/ \E k \in DOMAIN _BRAND_CANDS :
             /\ HasCol(call.df, _BRAND_CANDS[k])
             /\ \A j \in 1..(k - 1) : ~HasCol(call.df, _BRAND_CANDS[j])
             /\ resumen.Marcas =
                   Cardinality({call.df.rows[i][_BRAND_CANDS[k]] :
                                   i \in DOMAIN call.df.rows} \ {<<>>})

-----------------------------------------------------------------------------
(***************************************************************************)
(* _combine_outview_to_csv (lines 688-708) and _xlsx_to_csv_stream (lines  *)
(* 649-674, with openpyxl importable).  An input file is its suffix (of    *)
(* the lower-cased name) and its rows, the first being the header; a row   *)
(* is a sequence of cells.  The combined CSV is the sequence of the rows   *)
(* written.  A spreadsheet cell without a value is NoneCell.               *)
(***************************************************************************)
NoneCell == "<None>"

\* lines 664-670: the header cells as str(x), the other cells as they are,
\* "" for a cell without value
_xlsx_to_csv_stream(rows) ==
    [i \in DOMAIN rows |->
        [j \in DOMAIN rows[i] |->
            IF rows[i][j] = NoneCell THEN "" ELSE rows[i][j]]]

\* lines 693-708, for the inputs that remain, with the rows written so far
RECURSIVE combine_loop(_, _, _)
combine_loop(inputs, wrote_header, written) ==
    IF inputs = <<>> THEN written
    ELSE IF Head(inputs).suffix = ".csv"
         THEN combine_loop(Tail(inputs),
                           wrote_header \/ Head(inputs).rows # <<>>,
                           written \o (IF wrote_header /\ Head(inputs).rows # <<>>
                                       THEN Tail(Head(inputs).rows)
                                       ELSE Head(inputs).rows))
         ELSE combine_loop(Tail(inputs), TRUE,
                           written \o _xlsx_to_csv_stream(Head(inputs).rows))

_combine_outview_to_csv(inputs) == combine_loop(inputs, FALSE, <<>>)

\* Largest number of input files, and of data rows of one file
MaxInputs == 2
MaxDataRows == 2

PlacementHeader == <<"Fecha", "Marca">>

\* Data rows: the k-th row of the file with number n
PlacementDataRow(n, k) ==
    <<(<<"01/01/2024", "02/01/2024", "03/01/2024", "04/01/2024">>)[k],
      (<<"ACME", "BETA", NoneCell>>)[n]>>

\* Input files: CSV files with brand ACME, spreadsheets with brand BETA or
\* with empty brand cells, each with its header and 0..MaxDataRows data
\* rows, and a CSV file and a spreadsheet without any row
PlacementInputs ==
    {[suffix |-> (<<".csv", ".xlsx", ".xlsx">>)[n],
      rows |-> <<PlacementHeader>> \o
               [k \in 1..d |-> PlacementDataRow(n, k)]] :
        n \in 1..3, d \in 0..MaxDataRows}
    \cup {[suffix |-> s, rows |-> <<>>] : s \in {".csv", ".xlsx"}}

InitCombine ==
    /\ PlacementIdle
    /\ monitor_file = None
    /\ factores = <<>>
    /\ df_m_raw = EmptyFrame
    /\ df_m = EmptyFrame
    /\ mon_u = EmptyFrame
    /\ out_u = EmptyFrame
    /\ df_c = EmptyFrame
    /\ sheets = {}
    /\ df_result = EmptyFrame
    /\ resumen = None
    /\ raised = NoError
    /\ tried = <<>>
    /\ pc = "combine"
    /\ CONFIG_PATH = Idle
    /\ cfg = Idle
    /\ progress_json = Idle
    /\ worker = Idle
    /\ ui = Idle
    /\ db = Idle
    /\ \E n \in 1..MaxInputs :
          \E inputs \in [1..n -> PlacementInputs] :
             call = [inputs |-> inputs, out_csv |-> <<>>]

\* worker_run line 735: _combine_outview_to_csv(out_inputs, comb_out)
CombineOutview ==
    /\ pc = "combine"
    /\ call' = [call EXCEPT !.out_csv = _combine_outview_to_csv(call.inputs)]
    /\ pc' = "combined"
    /\ UNCHANGED <<df, factor_outview, out, tmp, monitor_file, out_file,
                   factores, df_m_raw, df_m, mon_u, out_u, df_c, sheets,
                   df_result, resumen, raised, tried, CONFIG_PATH, cfg,
                   progress_json, worker, ui, db>>

NextCombine == CombineOutview

SpecCombine == InitCombine /\ [][NextCombine]_vars

\* The data rows of the inputs, in input order, as CSV rows
RECURSIVE AllDataRows(_)
AllDataRows(inputs) ==
    IF inputs = <<>> THEN <<>>
    ELSE (IF Head(inputs).rows = <<>> THEN <<>>
          ELSE Tail(_xlsx_to_csv_stream(Head(inputs).rows)))
         \o AllDataRows(Tail(inputs))

\* C28: for inputs that each have a header row, the combined file is one
\* header row followed by all data rows of all inputs in input order: no
\* header is emitted as a data row and no data row is dropped
C28_OneHeaderThenAllData ==
    (pc = "combined" /\ \A i \in DOMAIN call.inputs :
                           call.inputs[i].rows # <<>>) =>
        call.out_csv = <<PlacementHeader>> \o AllDataRows(call.inputs)

-----------------------------------------------------------------------------
(***************************************************************************)
(* Saving the configuration (lines 47-50 and 57-61; the "Guardar factores" *)
(* button of src/app.py).  Each save is a read of the whole file by        *)
(* _load_cfg followed by a write of the whole file, with nothing that      *)
(* keeps another session from running in between.  cfg.sess is each        *)
(* session's save in progress; cfg.saved_monitor and cfg.saved_outview     *)
(* are the arguments of the last save of each kind that has returned.      *)
(***************************************************************************)
Sessions == {1, 2}

SessionIdle == [pc |-> "idle", cfg |-> DefaultConfig, f |-> <<>>, v |-> NaN]

\* Multiplier mappings and surface factors that a session may save
SavedMappings == {HalfQuarterFactors, NeutralFactors}
SavedFactors == {<<3, 2>>, <<2, 1>>}

InitConfigSave ==
    /\ PlacementIdle
    /\ monitor_file = None
    /\ factores = <<>>
    /\ df_m_raw = EmptyFrame
    /\ df_m = EmptyFrame
    /\ mon_u = EmptyFrame
    /\ out_u = EmptyFrame
    /\ df_c = EmptyFrame
    /\ sheets = {}
    /\ df_result = EmptyFrame
    /\ resumen = None
    /\ raised = NoError
    /\ tried = <<>>
    /\ pc = "sessions"
    /\ CONFIG_PATH \in {Missing, Unreadable, DefaultConfig}
    /\ cfg = [sess |-> [s \in Sessions |-> SessionIdle],
              saved_monitor |-> NoMapping, saved_outview |-> NoNumber]
    /\ progress_json = Idle
    /\ worker = Idle
    /\ ui = Idle
    /\ call = Idle
    /\ db = Idle

save_unchanged ==
    UNCHANGED <<df, factor_outview, out, tmp, pc, monitor_file, out_file,
                factores, df_m_raw, df_m, mon_u, out_u, df_c, sheets,
                df_result, resumen, raised, tried, progress_json, worker, ui,
                call, db>>

\* save_monitor_factors(f), line 48: cfg = _load_cfg()
SaveMonitorLoad ==
    \E s \in Sessions, f \in SavedMappings :
       /\ cfg.sess[s].pc = "idle"
       /\ CONFIG_PATH' = _load_cfg(CONFIG_PATH).file
       /\ cfg' = [cfg EXCEPT !.sess[s] =
                     [pc |-> "save_monitor", cfg |-> _load_cfg(CONFIG_PATH).cfg,
                      f |-> f, v |-> NaN]]
       /\ save_unchanged

\* lines 49-50: cfg["monitor"] = {k: float(v) ...}; the file is written
SaveMonitorWrite ==
    \E s \in Sessions :
       /\ cfg.sess[s].pc = "save_monitor"
       /\ CONFIG_PATH' = [cfg.sess[s].cfg EXCEPT !.monitor = cfg.sess[s].f]
       /\ cfg' = [cfg EXCEPT !.sess[s] = SessionIdle,
                             !.saved_monitor = Given(cfg.sess[s].f)]
       /\ save_unchanged

\* save_outview_factor(v), lines 58-59: cfg = _load_cfg(); setdefault
SaveOutviewLoad ==
    \E s \in Sessions, v \in SavedFactors :
       /\ cfg.sess[s].pc = "idle"
       /\ CONFIG_PATH' = _load_cfg(CONFIG_PATH).file
       /\ cfg' = [cfg EXCEPT !.sess[s] =
                     [pc |-> "save_outview", cfg |-> _load_cfg(CONFIG_PATH).cfg,
                      f |-> <<>>, v |-> v]]
       /\ save_unchanged

\* lines 60-61: cfg["outview"]["tarifa_superficie_factor"] = float(v); the
\* file is written
SaveOutviewWrite ==
    \E s \in Sessions :
       /\ cfg.sess[s].pc = "save_outview"
       /\ CONFIG_PATH' = [cfg.sess[s].cfg EXCEPT !.outview = cfg.sess[s].v]
       /\ cfg' = [cfg EXCEPT !.sess[s] = SessionIdle,
                             !.saved_outview = Given(cfg.sess[s].v)]
       /\ save_unchanged

NextConfigSave ==
    \/ SaveMonitorLoad
    \/ SaveMonitorWrite
    \/ SaveOutviewLoad
    \/ SaveOutviewWrite

\* The saves of two sessions, interleaved
SpecConfigSave == InitConfigSave /\ [][NextConfigSave]_vars

\* C29: whenever no save is in progress, load_monitor_factors returns the
\* mapping of the last save_monitor_factors and load_outview_factor the
\* value of the last save_outview_factor: each save leaves the other part
\* of the store as it was, also when sessions save concurrently
C29_SavesRoundTrip ==
    (\A s \in Sessions : cfg.sess[s].pc = "idle") =>
        /\ cfg.saved_monitor.given =>
              load_monitor_factors(CONFIG_PATH).cfg = cfg.saved_monitor.value
        /\ cfg.saved_outview.given =>
              load_outview_factor(CONFIG_PATH).cfg = cfg.saved_outview.value

-----------------------------------------------------------------------------
(***************************************************************************)
(* Password and token login (src/auth.py, lines 174-201 and 293-384).      *)
(* db.users and db.login_tokens are the two tables, db.now the clock       *)
(* int(time.time()); db.ret is the last call that returned a value, with   *)
(* that value.                                                             *)
(* db.issued and db.revoked record the history: which user and expiry each *)
(* raw token was created with, and which raw tokens have been revoked.     *)
(* Raw tokens (32 random bytes) are numbered in the order of their         *)
(* creation and never repeat; 0 stands for the empty text.  SHA-256 and    *)
(* PBKDF2 are modelled as injective: the digest is the tagged input.       *)
(***************************************************************************)
\* str.lower()
LowerChar(c) ==
    IF \E k \in DOMAIN UpperLetters : UpperLetters[k] = c
    THEN LowerLetters[CHOOSE k \in DOMAIN UpperLetters : UpperLetters[k] = c]
    ELSE c

Lower(s) == Col([k \in DOMAIN s |-> LowerChar(s[k])])

_sha256(text) == <<"sha256", text>>

pbkdf2_hmac(password, salt) == <<"pbkdf2", password, salt>>

\* _hash_pw with the salt that os.urandom gave
_hash_pw(password, salt) ==
    [scheme |-> "pbkdf2", salt |-> salt, hash |-> pbkdf2_hmac(password, salt)]

_verify_pw(password, stored) ==
    IF stored.scheme # "pbkdf2" THEN FALSE
    ELSE pbkdf2_hmac(password, stored.salt) = stored.hash

_row_to_user(id, row) ==
    [id |-> id, email |-> row.email, active |-> row.active]

\* the id of the row with that email, 0 when there is none (email is UNIQUE)
RowWithEmail(users, email) ==
    IF \E id \in DOMAIN users : users[id].email = email
    THEN CHOOSE id \in DOMAIN users : users[id].email = email
    ELSE 0

\* authenticate(email, pwd) on the table users
authenticate(users, email, pwd) ==
    LET id == RowWithEmail(users, Strip(Lower(email)))
    IN  IF id = 0 THEN None
        ELSE IF ~users[id].active THEN None
        ELSE IF ~_verify_pw(pwd, users[id].pw_hash) THEN None
        ELSE _row_to_user(id, users[id])

Mut_user_from_token(d, token) ==
    IF token = 0 THEN None
    ELSE IF /\ _sha256(token) \in DOMAIN d.login_tokens
            /\ d.login_tokens[_sha256(token)].expires >= d.now
            /\ d.login_tokens[_sha256(token)].user_id \in DOMAIN d.users
         THEN LET id == d.login_tokens[_sha256(token)].user_id
              IN  IF ~d.users[id].active THEN None
                  ELSE _row_to_user(id, d.users[id])
         ELSE None

\* user_from_token(token) on the database d
user_from_token(d, token) ==
    IF token = 0 THEN None
    ELSE IF /\ _sha256(token) \in DOMAIN d.login_tokens
            /\ d.login_tokens[_sha256(token)].active
            /\ d.login_tokens[_sha256(token)].expires >= d.now
            /\ d.login_tokens[_sha256(token)].user_id \in DOMAIN d.users
         THEN LET id == d.login_tokens[_sha256(token)].user_id
              IN  IF ~d.users[id].active THEN None
                  ELSE _row_to_user(id, d.users[id])
         ELSE None

\* Largest number of tokens created, and of steps of the clock
MaxTokens == 2
MaxTicks == 2

\* One step of the clock: 90 days, in seconds
TickSeconds == 90 * 24 * 60 * 60

\* days of create_login_token (its default)
TokenDays == 90

EMAIL_A == <<"a", "@", "x">>
EMAIL_B == <<"b", "@", "x">>
Passwords == {"pw1", "pw2"}
NewPasswords == {"pw2"}
Salts == {"s1"}

\* what a caller may type as email: the first account's email with capitals
\* and blanks around it, the second account's email, and an email without
\* account
EmailInputs == {<<" ", "A", "@", "X", " ">>, EMAIL_B, <<"c", "@", "x">>}

TokenInputs == 0..MaxTokens

\* Two accounts created by create_user, no token yet
InitAuth ==
    /\ PlacementIdle
    /\ monitor_file = None
    /\ factores = <<>>
    /\ df_m_raw = EmptyFrame
    /\ df_m = EmptyFrame
    /\ mon_u = EmptyFrame
    /\ out_u = EmptyFrame
    /\ df_c = EmptyFrame
    /\ sheets = {}
    /\ df_result = EmptyFrame
    /\ resumen = None
    /\ raised = NoError
    /\ tried = <<>>
    /\ pc = "auth"
    /\ CONFIG_PATH = Idle
    /\ cfg = Idle
    /\ progress_json = Idle
    /\ worker = Idle
    /\ ui = Idle
    /\ call = Idle
    /\ db = [users |-> <<[email |-> EMAIL_A, active |-> TRUE,
                          pw_hash |-> _hash_pw("pw1", "s1")],
                         [email |-> EMAIL_B, active |-> TRUE,
                          pw_hash |-> _hash_pw("pw2", "s1")]>>,
             login_tokens |-> <<>>,
             now |-> 0,
             issued |-> <<>>,
             revoked |-> {},
             ret |-> [op |-> "none"]]

auth_unchanged ==
    UNCHANGED <<df, factor_outview, out, tmp, pc, monitor_file, out_file,
                factores, df_m_raw, df_m, mon_u, out_u, df_c, sheets,
                df_result, resumen, raised, tried, CONFIG_PATH, cfg,
                progress_json, worker, ui, call>>

\* create_login_token(user_id): a fresh raw token, stored by its digest
CreateLoginToken ==
    \E user_id \in DOMAIN db.users :
       /\ Len(db.issued) < MaxTokens
       /\ \E raw \in {Len(db.issued) + 1} :
             db' = [db EXCEPT
                      !.login_tokens =
                         (_sha256(raw) :>
                            [user_id |-> user_id,
                             expires |-> db.now + TokenDays * 24 * 60 * 60,
                             active |-> TRUE]) @@ @,
                      !.issued =
                         Append(@, [user_id |-> user_id,
                                    expires |-> db.now
                                                + TokenDays * 24 * 60 * 60]),
                      !.ret = [op |-> "create_login_token", result |-> raw]]
       /\ auth_unchanged

\* revoke_token(token)
RevokeToken ==
    \E token \in TokenInputs :
       /\ db' = [db EXCEPT
                   !.login_tokens =
                      [h \in DOMAIN @ |->
                          IF h = _sha256(token)
                          THEN [@[h] EXCEPT !.active = FALSE] ELSE @[h]],
                   !.revoked = @ \cup ({token} \cap DOMAIN db.issued),
                   !.ret = [op |-> "none"]]
       /\ auth_unchanged

\* revoke_all_tokens(user_id)
RevokeAllTokens ==
    \E user_id \in DOMAIN db.users :
       /\ db' = [db EXCEPT
                   !.login_tokens =
                      [h \in DOMAIN @ |->
                          IF @[h].user_id = user_id
                          THEN [@[h] EXCEPT !.active = FALSE] ELSE @[h]],
                   !.revoked = @ \cup {t \in DOMAIN db.issued :
                                          db.issued[t].user_id = user_id},
                   !.ret = [op |-> "none"]]
       /\ auth_unchanged

\* update_user(uid, active=...)
UpdateUserActive ==
    \E uid \in DOMAIN db.users, active \in BOOLEAN :
       /\ db' = [db EXCEPT !.users[uid].active = active,
                           !.ret = [op |-> "none"]]
       /\ auth_unchanged

\* set_password(uid, new_pwd): update_user(uid, pw_hash=_hash_pw(new_pwd))
SetPassword ==
    \E uid \in DOMAIN db.users, new_pwd \in NewPasswords, salt \in Salts :
       /\ db' = [db EXCEPT !.users[uid].pw_hash = _hash_pw(new_pwd, salt),
                           !.ret = [op |-> "none"]]
       /\ auth_unchanged

\* authenticate(email, pwd)
Authenticate ==
    \E email \in EmailInputs, pwd \in Passwords :
       /\ db' = [db EXCEPT !.ret = [op |-> "authenticate", email |-> email,
                                    pwd |-> pwd,
                                    result |-> authenticate(db.users, email,
                                                            pwd)]]
       /\ auth_unchanged

\* user_from_token(token)
UserFromToken ==
    \E token \in TokenInputs :
       /\ db' = [db EXCEPT !.ret = [op |-> "user_from_token",
                                    token |-> token,
                                    result |-> user_from_token(db, token)]]
       /\ auth_unchanged

\* time passes
Tick ==
    /\ db.now < MaxTicks * TickSeconds
    /\ db' = [db EXCEPT !.now = @ + TickSeconds, !.ret = [op |-> "none"]]
    /\ auth_unchanged

NextAuth ==
    \/ CreateLoginToken
    \/ RevokeToken
    \/ RevokeAllTokens
    \/ UpdateUserActive
    \/ SetPassword
    \/ Authenticate
    \/ UserFromToken
    \/ Tick

SpecAuth == InitAuth /\ [][NextAuth]_vars

\* C30: user_from_token returns a user only for a token created for that
\* user, not revoked (by itself or with all tokens of its user), not
\* expired, of a user who is active; authenticate returns a user only for
\* an existing, active account whose password verifies; in every state a
\* revoked token gives no user, and a deactivated user can log in neither
\* by password nor by token
C30_LoginOnlyWithValidCredentials ==
    /\ (db.ret.op = "user_from_token" /\ db.ret.result # None) =>
          /\ db.ret.token \in DOMAIN db.issued
          /\ db.issued[db.ret.token].user_id = db.ret.result.id
          /\ db.ret.token \notin db.revoked
          /\ db.now <= db.issued[db.ret.token].expires
          /\ db.users[db.ret.result.id].active
    /\ (db.ret.op = "authenticate" /\ db.ret.result # None) =>
          \E id \in DOMAIN db.users :
             /\ db.ret.result.id = id
             /\ db.users[id].email = Strip(Lower(db.ret.email))
             /\ db.users[id].active
             /\ _verify_pw(db.ret.pwd, db.users[id].pw_hash)
    /\ \A t \in db.revoked : user_from_token(db, t) = None
    /\ \A id \in DOMAIN db.users :
          ~db.users[id].active =>
             /\ \A e \in EmailInputs, p \in Passwords :
                   authenticate(db.users, e, p) = None
                   \/ authenticate(db.users, e, p).id # id
             /\ \A t \in TokenInputs :
                   user_from_token(db, t) = None
                   \/ user_from_token(db, t).id # id

\* after time has passed, a user is returned for a token while another
\* token has been revoked and the other account is deactivated
C30_Witness ==
    /\ db.ret.op = "user_from_token"
    /\ db.ret.result # None
    /\ db.revoked # {}
    /\ db.now > 0
    /\ ~db.users[2].active

====
